---- MODULE Spec2Model ----
(***************************************************************************)
(* Lifetime tax model (backend/main.py): the per-year calculators and the  *)
(* run_model year loop that threads the baseline and the reform student-   *)
(* loan balances.                                                          *)
(*                                                                         *)
(* Number representation (the source computes in binary floating point):   *)
(*   money              integer pence             12_570   -> 1257000      *)
(*   rates and factors  integer millionths        0.0233   -> 23300        *)
(*                                                 1.0      -> One          *)
(*   age multipliers    integer hundredths        1.50     -> 150          *)
(* Every product or quotient is rounded down to the unit of its result.    *)
(* Record fields that the source passes through round() are whole pounds.  *)
(***************************************************************************)
EXTENDS Integers, Sequences, FiniteSets, TLC

VARIABLES
    inputs,         \* run_model: the ModelInputs of this run
    pc,             \* run_model: "loop" while the year loop runs, "done" after return
    current_year,   \* run_model: the loop variable
    baseline_debt,  \* run_model: carried Pre-AB balance (pence)
    reform_debt,    \* run_model: carried Post-AB balance (pence)
    baseline,       \* run_model: the last baseline scenario dict
    reform,         \* run_model: the last reform scenario dict
    results,        \* run_model: the list of records
    skipped,        \* history: how many loop iterations took the `continue`
    call,           \* calculator harness: the function applied and its arguments
    ret             \* calculator harness: what the call returned

vars == <<inputs, pc, current_year, baseline_debt, reform_debt, baseline, reform,
          results, skipped, call, ret>>

run_vars == <<inputs, pc, current_year, baseline_debt, reform_debt, baseline, reform,
              results, skipped>>

-----------------------------------------------------------------------------
(* Fixed-point arithmetic                                                  *)

One == 1000000

Pence == 100

Max(a, b) == IF a >= b THEN a ELSE b

Min(a, b) == IF a <= b THEN a ELSE b

\* floor(a * b / d) for a >= 0, b >= 0, d > 0 without forming a * b
MulDiv(a, b, d) == (a \div d) * b + ((a % d) * b) \div d

\* floor(a * b / One) for b >= 0, without forming a * b
Mul6(a, b) ==
    LET a1 == a \div 1000
        a0 == a % 1000
        b1 == b \div 1000
        b0 == b % 1000
        mid == a1 * b0 + a0 * b1
    IN  a1 * b1 + (mid + (a0 * b0) \div 1000) \div 1000

\* floor(a * p / 100): a percentage of an amount
Pct(a, p) == MulDiv(a, p, 100)

\* floor(3 * 10^4 * x / w) for 0 <= x <= w, by long division
RECURSIVE LongDiv(_, _, _, _)
LongDiv(r, w, digits, acc) ==
    IF digits = 0 THEN acc
    ELSE LongDiv((r * 10) % w, w, digits - 1, acc * 10 + (r * 10) \div w)

\* Python round() of an amount in pence to whole pounds (ties to even)
Round(p) ==
    LET q == p \div Pence
        r == p % Pence
    IN  IF r > 50 THEN q + 1
        ELSE IF r < 50 THEN q
        ELSE IF q % 2 = 0 THEN q ELSE q + 1

-----------------------------------------------------------------------------
(* Parameter tables                                                        *)

CPI_FORECASTS ==
    (2024 :> 23300) @@ (2025 :> 31800) @@ (2026 :> 19300) @@
    (2027 :> 20000) @@ (2028 :> 20000) @@ (2029 :> 20000)

CPI_LONG_TERM == 20000

RPI_FORECASTS ==
    (2024 :> 33100) @@ (2025 :> 41600) @@ (2026 :> 30800) @@
    (2027 :> 30000) @@ (2028 :> 28300) @@ (2029 :> 28300)

RPI_LONG_TERM == 23900

PERSONAL_ALLOWANCE == 1257000

BASIC_RATE_THRESHOLD == 5027000

HIGHER_RATE_THRESHOLD == 12514000

BASIC_RATE == 20

HIGHER_RATE == 40

ADDITIONAL_RATE == 45

PA_TAPER_THRESHOLD == 10000000

PA_TAPER_RATE == 50

NI_PRIMARY_THRESHOLD == 1257000

NI_UPPER_EARNINGS_LIMIT == 5027000

NI_MAIN_RATE == 8

NI_HIGHER_RATE == 2

STUDENT_LOAN_THRESHOLD_PLAN2 == 2729500

STUDENT_LOAN_RATE == 9

STUDENT_LOAN_FORGIVENESS_YEARS == 30

STUDENT_LOAN_INTEREST_LOWER_THRESHOLDS ==
    (2020 :> 2657500) @@ (2021 :> 2729500) @@ (2022 :> 2729500) @@
    (2023 :> 2766000) @@ (2024 :> 2766000) @@ (2025 :> 2847000) @@
    (2026 :> 2938500) @@ (2027 :> 2938500) @@ (2028 :> 2938500) @@
    (2029 :> 2938500)

STUDENT_LOAN_INTEREST_UPPER_THRESHOLDS ==
    (2020 :> 4783500) @@ (2021 :> 4913000) @@ (2022 :> 4913000) @@
    (2023 :> 4958500) @@ (2024 :> 4958500) @@ (2025 :> 5124500) @@
    (2026 :> 5288500) @@ (2027 :> 5288500) @@ (2028 :> 5288500) @@
    (2029 :> 5288500)

STUDENT_LOAN_INTEREST_ADDITIONAL_RATE == 30000

STATE_PENSION_FORECASTS ==
    (2024 :> 1154190) @@ (2025 :> 1201675) @@ (2026 :> 1256985) @@
    (2027 :> 1288550)

STATE_PENSION_LONG_TERM_GROWTH == 40000

EARNINGS_GROWTH_BY_AGE ==
    (22 :> 100) @@ (23 :> 105) @@ (24 :> 110) @@ (25 :> 116) @@ (26 :> 122) @@
    (27 :> 128) @@ (28 :> 135) @@ (29 :> 142) @@ (30 :> 150) @@ (31 :> 155) @@
    (32 :> 160) @@ (33 :> 165) @@ (34 :> 170) @@ (35 :> 175) @@ (36 :> 180) @@
    (37 :> 184) @@ (38 :> 188) @@ (39 :> 192) @@ (40 :> 196) @@ (41 :> 200) @@
    (42 :> 203) @@ (43 :> 206) @@ (44 :> 209) @@ (45 :> 212) @@ (46 :> 214) @@
    (47 :> 216) @@ (48 :> 218) @@ (49 :> 219) @@ (50 :> 220)

PEAK_EARNINGS_MULTIPLIER == 220

\* max() and min() of a table's keys
MaxKey(table) == CHOOSE k \in DOMAIN table : \A j \in DOMAIN table : j <= k

MinKey(table) == CHOOSE k \in DOMAIN table : \A j \in DOMAIN table : k <= j

\* dict.get(key, default)
Get(table, key, default) == IF key \in DOMAIN table THEN table[key] ELSE default

-----------------------------------------------------------------------------
(* Inflation indexer                                                       *)

get_cpi(year) == Get(CPI_FORECASTS, year, CPI_LONG_TERM)

get_rpi(year) == Get(RPI_FORECASTS, year, RPI_LONG_TERM)

\* the body of `for y in range(base_year, target_year)` from y on (a factor of
\* zero stays zero; reading factor at every step keeps the evaluation shallow)
RECURSIVE InflationLoop(_, _, _, _)
InflationLoop(y, target_year, use_rpi, factor) ==
    IF y >= target_year \/ factor = 0 THEN factor
    ELSE LET rate == IF use_rpi THEN get_rpi(y) ELSE get_cpi(y)
         IN  InflationLoop(y + 1, target_year, use_rpi, Mul6(factor, One + rate))

\* get_cumulative_inflation with the target year included in the range
get_cumulative_inflation_inclusive(base_yr, target_year, use_rpi) ==
    InflationLoop(base_yr, target_year + 1, use_rpi, One)

get_cumulative_inflation(base_yr, target_year, use_rpi) ==
    InflationLoop(base_yr, target_year, use_rpi, One)

-----------------------------------------------------------------------------
(* State pension                                                           *)

\* the body of `for _ in range(last_forecast_year, year)` from y on (an amount
\* of zero stays zero)
RECURSIVE PensionLoop(_, _, _)
PensionLoop(y, year, pension) ==
    IF y >= year \/ pension = 0 THEN pension
    ELSE PensionLoop(y + 1, year, Mul6(pension, One + STATE_PENSION_LONG_TERM_GROWTH))

get_state_pension(year) ==
    IF year \in DOMAIN STATE_PENSION_FORECASTS THEN STATE_PENSION_FORECASTS[year]
    ELSE LET last_forecast_year == MaxKey(STATE_PENSION_FORECASTS)
         IN  PensionLoop(last_forecast_year, year,
                         STATE_PENSION_FORECASTS[last_forecast_year])

-----------------------------------------------------------------------------
(* National insurance                                                      *)

\* calculate_ni with the higher rate charged on all income above the primary
\* threshold once the upper earnings limit is passed
calculate_ni_higher_rate_on_all(gross_income) ==
    IF gross_income <= NI_PRIMARY_THRESHOLD THEN 0
    ELSE LET main_band == Min(gross_income - NI_PRIMARY_THRESHOLD,
                              NI_UPPER_EARNINGS_LIMIT - NI_PRIMARY_THRESHOLD)
             main == Pct(main_band, NI_MAIN_RATE)
         IN  IF gross_income > NI_UPPER_EARNINGS_LIMIT
             THEN main + Pct(gross_income - NI_PRIMARY_THRESHOLD, NI_HIGHER_RATE)
             ELSE main

calculate_ni(gross_income) ==
    IF gross_income <= NI_PRIMARY_THRESHOLD THEN 0
    ELSE LET main_band == Min(gross_income - NI_PRIMARY_THRESHOLD,
                              NI_UPPER_EARNINGS_LIMIT - NI_PRIMARY_THRESHOLD)
             main == Pct(main_band, NI_MAIN_RATE)
         IN  IF gross_income > NI_UPPER_EARNINGS_LIMIT
             THEN main + Pct(gross_income - NI_UPPER_EARNINGS_LIMIT, NI_HIGHER_RATE)
             ELSE main

-----------------------------------------------------------------------------
(* Student loan: interest thresholds, interest rate, repayment             *)

\* one of the two thresholds: the table's value, the earliest value before the
\* table, the last value RPI-uprated after it
InterestThreshold(table, year) ==
    IF year \in DOMAIN table THEN table[year]
    ELSE IF year < MinKey(table) THEN table[MinKey(table)]
    ELSE LET last_known_year == MaxKey(table)
             base_value == table[last_known_year]
             rpi_factor == get_cumulative_inflation(last_known_year, year, TRUE)
         IN  Mul6(base_value, rpi_factor)

\* get_student_loan_interest_thresholds with the upper threshold held at its last
\* tabulated value instead of being RPI-uprated beyond the table
get_student_loan_interest_thresholds_upper_held(year) ==
    << InterestThreshold(STUDENT_LOAN_INTEREST_LOWER_THRESHOLDS, year),
       Get(STUDENT_LOAN_INTEREST_UPPER_THRESHOLDS, year,
           STUDENT_LOAN_INTEREST_UPPER_THRESHOLDS[
               IF year < MinKey(STUDENT_LOAN_INTEREST_UPPER_THRESHOLDS)
               THEN MinKey(STUDENT_LOAN_INTEREST_UPPER_THRESHOLDS)
               ELSE MaxKey(STUDENT_LOAN_INTEREST_UPPER_THRESHOLDS)]) >>

\* <<lower_threshold, upper_threshold>>
get_student_loan_interest_thresholds(year) ==
    << InterestThreshold(STUDENT_LOAN_INTEREST_LOWER_THRESHOLDS, year),
       InterestThreshold(STUDENT_LOAN_INTEREST_UPPER_THRESHOLDS, year) >>

\* get_student_loan_interest_rate with the taper divided by the upper threshold
\* instead of the band width
get_student_loan_interest_rate_wrong_width(gross_income, year) ==
    LET rpi == get_rpi(year)
        thresholds == get_student_loan_interest_thresholds(year)
        lower_threshold == thresholds[1]
        upper_threshold == thresholds[2]
    IN  IF gross_income <= lower_threshold THEN rpi
        ELSE IF gross_income >= upper_threshold
             THEN rpi + STUDENT_LOAN_INTEREST_ADDITIONAL_RATE
        ELSE LET width == upper_threshold
                 num == 3 * (gross_income - lower_threshold)
                 additional_rate == LongDiv(num % width, width, 4, num \div width)
             IN  rpi + additional_rate

get_student_loan_interest_rate(gross_income, year) ==
    LET rpi == get_rpi(year)
        thresholds == get_student_loan_interest_thresholds(year)
        lower_threshold == thresholds[1]
        upper_threshold == thresholds[2]
    IN  IF gross_income <= lower_threshold THEN rpi
        ELSE IF gross_income >= upper_threshold
             THEN rpi + STUDENT_LOAN_INTEREST_ADDITIONAL_RATE
        ELSE \* additional_rate = 0.03 * (income - lower) / (upper - lower)
             LET width == upper_threshold - lower_threshold
                 num == 3 * (gross_income - lower_threshold)
                 additional_rate == LongDiv(num % width, width, 4, num \div width)
             IN  rpi + additional_rate

\* the `threshold: float = None` default
None == -1

\* calculate_student_loan with the forgiveness test written `>` instead of `>=`
calculate_student_loan_late_forgiveness(gross_income, remaining_debt, year, years_since_graduation, threshold_arg) ==
    IF years_since_graduation > STUDENT_LOAN_FORGIVENESS_YEARS THEN <<0, 0>>
    ELSE IF remaining_debt <= 0 THEN <<0, 0>>
    ELSE LET threshold == IF threshold_arg = None THEN STUDENT_LOAN_THRESHOLD_PLAN2
                          ELSE threshold_arg
             interest_rate == get_student_loan_interest_rate(gross_income, year)
         IN  IF gross_income <= threshold
             THEN <<0, Mul6(remaining_debt, One + interest_rate)>>
             ELSE LET repayment == Min(Pct(gross_income - threshold, STUDENT_LOAN_RATE),
                                       remaining_debt)
                      remaining_after_payment == remaining_debt - repayment
                      new_debt == Mul6(remaining_after_payment, One + interest_rate)
                  IN  <<repayment, Max(0, new_debt)>>

\* calculate_student_loan with the repayment not capped at the balance and the
\* new balance not floored at zero
calculate_student_loan_unbounded(gross_income, remaining_debt, year, years_since_graduation, threshold_arg) ==
    IF years_since_graduation >= STUDENT_LOAN_FORGIVENESS_YEARS THEN <<0, 0>>
    ELSE IF remaining_debt <= 0 THEN <<0, 0>>
    ELSE LET threshold == IF threshold_arg = None THEN STUDENT_LOAN_THRESHOLD_PLAN2
                          ELSE threshold_arg
             interest_rate == get_student_loan_interest_rate(gross_income, year)
         IN  IF gross_income <= threshold
             THEN <<0, Mul6(remaining_debt, One + interest_rate)>>
             ELSE LET repayment == Pct(gross_income - threshold, STUDENT_LOAN_RATE)
                      remaining_after_payment == remaining_debt - repayment
                      new_debt == Mul6(remaining_after_payment, One + interest_rate)
                  IN  <<repayment, new_debt>>

\* variant: interest accrues on the opening balance before the repayment is taken
calculate_student_loan_interest_first(gross_income, remaining_debt, year, years_since_graduation, threshold_arg) ==
    IF years_since_graduation >= STUDENT_LOAN_FORGIVENESS_YEARS THEN <<0, 0>>
    ELSE IF remaining_debt <= 0 THEN <<0, 0>>
    ELSE LET threshold == IF threshold_arg = None THEN STUDENT_LOAN_THRESHOLD_PLAN2
                          ELSE threshold_arg
             interest_rate == get_student_loan_interest_rate(gross_income, year)
             with_interest == Mul6(remaining_debt, One + interest_rate)
         IN  IF gross_income <= threshold
             THEN <<0, with_interest>>
             ELSE LET repayment == Min(Pct(gross_income - threshold, STUDENT_LOAN_RATE),
                                       with_interest)
                  IN  <<repayment, Max(0, with_interest - repayment)>>

\* <<repayment, new debt balance>>
calculate_student_loan(gross_income, remaining_debt, year, years_since_graduation, threshold_arg) ==
    IF years_since_graduation >= STUDENT_LOAN_FORGIVENESS_YEARS THEN <<0, 0>>
    ELSE IF remaining_debt <= 0 THEN <<0, 0>>
    ELSE LET threshold == IF threshold_arg = None THEN STUDENT_LOAN_THRESHOLD_PLAN2
                          ELSE threshold_arg
             interest_rate == get_student_loan_interest_rate(gross_income, year)
         IN  IF gross_income <= threshold
             THEN <<0, Mul6(remaining_debt, One + interest_rate)>>
             ELSE LET repayment == Min(Pct(gross_income - threshold, STUDENT_LOAN_RATE),
                                       remaining_debt)
                      remaining_after_payment == remaining_debt - repayment
                      new_debt == Mul6(remaining_after_payment, One + interest_rate)
                  IN  <<repayment, Max(0, new_debt)>>

-----------------------------------------------------------------------------
(* Scenario evaluator                                                      *)

\* the three banded contributions of calculate_scenario's income tax
BandedTax(taxable0, pa, basic_threshold, additional_threshold) ==
    LET basic_band == IF taxable0 > 0 THEN Min(taxable0, basic_threshold - pa) ELSE 0
        taxable1 == taxable0 - basic_band
        higher_band == IF taxable1 > 0
                       THEN Min(taxable1, additional_threshold - basic_threshold)
                       ELSE 0
        taxable2 == taxable1 - higher_band
        top == IF taxable2 > 0 THEN taxable2 ELSE 0
    IN  Pct(basic_band, BASIC_RATE) + Pct(higher_band, HIGHER_RATE)
        + Pct(top, ADDITIONAL_RATE)

\* calculate_scenario with the repayment threshold frozen until the freeze-end
\* year of the tax thresholds
calculate_scenario_one_freeze_year(gross_income, year, years_since_graduation, remaining_debt, freeze_end_year) ==
    LET frozen == year < 2028 \/ year < freeze_end_year
        cpi_factor == IF frozen THEN One
                      ELSE get_cumulative_inflation(freeze_end_year, year, FALSE)
        pa == IF frozen THEN PERSONAL_ALLOWANCE
              ELSE Mul6(PERSONAL_ALLOWANCE, cpi_factor)
        basic_threshold == IF frozen THEN BASIC_RATE_THRESHOLD
                           ELSE Mul6(BASIC_RATE_THRESHOLD, cpi_factor)
        additional_threshold == IF frozen THEN HIGHER_RATE_THRESHOLD
                                ELSE Mul6(HIGHER_RATE_THRESHOLD, cpi_factor)
        taper_threshold == PA_TAPER_THRESHOLD
        effective_pa == IF gross_income > taper_threshold
                        THEN Max(0, pa - Pct(gross_income - taper_threshold, PA_TAPER_RATE))
                        ELSE pa
        taxable == Max(0, gross_income - effective_pa)
        income_tax == BandedTax(taxable, pa, basic_threshold, additional_threshold)
        sl_freeze_end == freeze_end_year
        sl_threshold == IF year < 2027 \/ year < sl_freeze_end
                        THEN STUDENT_LOAN_THRESHOLD_PLAN2
                        ELSE Mul6(STUDENT_LOAN_THRESHOLD_PLAN2,
                                  get_cumulative_inflation(sl_freeze_end, year, TRUE))
        loan == calculate_student_loan(gross_income, remaining_debt, year,
                                       years_since_graduation, sl_threshold)
    IN  [ pa |-> pa,
          basic_threshold |-> basic_threshold,
          taper_threshold |-> taper_threshold,
          additional_threshold |-> additional_threshold,
          effective_pa |-> effective_pa,
          income_tax |-> income_tax,
          sl_threshold |-> sl_threshold,
          sl_payment |-> loan[1],
          sl_debt |-> loan[2] ]

\* calculate_scenario with the basic band measured from the tapered allowance
calculate_scenario_bands_from_effective_pa(gross_income, year, years_since_graduation, remaining_debt, freeze_end_year) ==
    LET frozen == year < 2028 \/ year < freeze_end_year
        cpi_factor == IF frozen THEN One
                      ELSE get_cumulative_inflation(freeze_end_year, year, FALSE)
        pa == IF frozen THEN PERSONAL_ALLOWANCE
              ELSE Mul6(PERSONAL_ALLOWANCE, cpi_factor)
        basic_threshold == IF frozen THEN BASIC_RATE_THRESHOLD
                           ELSE Mul6(BASIC_RATE_THRESHOLD, cpi_factor)
        additional_threshold == IF frozen THEN HIGHER_RATE_THRESHOLD
                                ELSE Mul6(HIGHER_RATE_THRESHOLD, cpi_factor)
        taper_threshold == PA_TAPER_THRESHOLD
        effective_pa == IF gross_income > taper_threshold
                        THEN Max(0, pa - Pct(gross_income - taper_threshold, PA_TAPER_RATE))
                        ELSE pa
        taxable == Max(0, gross_income - effective_pa)
        income_tax == BandedTax(taxable, effective_pa, basic_threshold,
                                additional_threshold)
        sl_freeze_end == IF freeze_end_year = 2028 THEN 2027 ELSE 2030
        sl_threshold == IF year < 2027 \/ year < sl_freeze_end
                        THEN STUDENT_LOAN_THRESHOLD_PLAN2
                        ELSE Mul6(STUDENT_LOAN_THRESHOLD_PLAN2,
                                  get_cumulative_inflation(sl_freeze_end, year, TRUE))
        loan == calculate_student_loan(gross_income, remaining_debt, year,
                                       years_since_graduation, sl_threshold)
    IN  [ pa |-> pa,
          basic_threshold |-> basic_threshold,
          taper_threshold |-> taper_threshold,
          additional_threshold |-> additional_threshold,
          effective_pa |-> effective_pa,
          income_tax |-> income_tax,
          sl_threshold |-> sl_threshold,
          sl_payment |-> loan[1],
          sl_debt |-> loan[2] ]

\* variant: once the freeze ends the thresholds fall by the CPI increase
calculate_scenario_thresholds_deflated(gross_income, year, years_since_graduation, remaining_debt, freeze_end_year) ==
    LET frozen == year < 2028 \/ year < freeze_end_year
        cpi_factor == IF frozen THEN One
                      ELSE get_cumulative_inflation(freeze_end_year, year, FALSE)
        pa == IF frozen THEN PERSONAL_ALLOWANCE
              ELSE 2 * PERSONAL_ALLOWANCE - Mul6(PERSONAL_ALLOWANCE, cpi_factor)
        basic_threshold == IF frozen THEN BASIC_RATE_THRESHOLD
                           ELSE 2 * BASIC_RATE_THRESHOLD - Mul6(BASIC_RATE_THRESHOLD, cpi_factor)
        additional_threshold == IF frozen THEN HIGHER_RATE_THRESHOLD
                                ELSE 2 * HIGHER_RATE_THRESHOLD - Mul6(HIGHER_RATE_THRESHOLD, cpi_factor)
        taper_threshold == PA_TAPER_THRESHOLD
        effective_pa == IF gross_income > taper_threshold
                        THEN Max(0, pa - Pct(gross_income - taper_threshold, PA_TAPER_RATE))
                        ELSE pa
        taxable == Max(0, gross_income - effective_pa)
        income_tax == BandedTax(taxable, pa, basic_threshold, additional_threshold)
        sl_freeze_end == IF freeze_end_year = 2028 THEN 2027 ELSE 2030
        sl_threshold == IF year < 2027 \/ year < sl_freeze_end
                        THEN STUDENT_LOAN_THRESHOLD_PLAN2
                        ELSE Mul6(STUDENT_LOAN_THRESHOLD_PLAN2,
                                  get_cumulative_inflation(sl_freeze_end, year, TRUE))
        loan == calculate_student_loan(gross_income, remaining_debt, year,
                                       years_since_graduation, sl_threshold)
    IN  [ pa |-> pa,
          basic_threshold |-> basic_threshold,
          taper_threshold |-> taper_threshold,
          additional_threshold |-> additional_threshold,
          effective_pa |-> effective_pa,
          income_tax |-> income_tax,
          sl_threshold |-> sl_threshold,
          sl_payment |-> loan[1],
          sl_debt |-> loan[2] ]

calculate_scenario(gross_income, year, years_since_graduation, remaining_debt, freeze_end_year) ==
    LET frozen == year < 2028 \/ year < freeze_end_year
        cpi_factor == IF frozen THEN One
                      ELSE get_cumulative_inflation(freeze_end_year, year, FALSE)
        pa == IF frozen THEN PERSONAL_ALLOWANCE
              ELSE Mul6(PERSONAL_ALLOWANCE, cpi_factor)
        basic_threshold == IF frozen THEN BASIC_RATE_THRESHOLD
                           ELSE Mul6(BASIC_RATE_THRESHOLD, cpi_factor)
        additional_threshold == IF frozen THEN HIGHER_RATE_THRESHOLD
                                ELSE Mul6(HIGHER_RATE_THRESHOLD, cpi_factor)
        taper_threshold == PA_TAPER_THRESHOLD
        effective_pa == IF gross_income > taper_threshold
                        THEN Max(0, pa - Pct(gross_income - taper_threshold, PA_TAPER_RATE))
                        ELSE pa
        taxable == Max(0, gross_income - effective_pa)
        income_tax == BandedTax(taxable, pa, basic_threshold, additional_threshold)
        sl_freeze_end == IF freeze_end_year = 2028 THEN 2027 ELSE 2030
        sl_threshold == IF year < 2027 \/ year < sl_freeze_end
                        THEN STUDENT_LOAN_THRESHOLD_PLAN2
                        ELSE Mul6(STUDENT_LOAN_THRESHOLD_PLAN2,
                                  get_cumulative_inflation(sl_freeze_end, year, TRUE))
        loan == calculate_student_loan(gross_income, remaining_debt, year,
                                       years_since_graduation, sl_threshold)
    IN  [ pa |-> pa,
          basic_threshold |-> basic_threshold,
          taper_threshold |-> taper_threshold,
          additional_threshold |-> additional_threshold,
          effective_pa |-> effective_pa,
          income_tax |-> income_tax,
          sl_threshold |-> sl_threshold,
          sl_payment |-> loan[1],
          sl_debt |-> loan[2] ]

\* (1 + rate) ** n for n >= 0, by repeated multiplication
RECURSIVE PowerLoop(_, _, _)
PowerLoop(onePlusRate, n, acc) ==
    IF n <= 0 \/ acc = 0 THEN acc
    ELSE PowerLoop(onePlusRate, n - 1, Mul6(acc, onePlusRate))

\* (1 + rate) ** n; a negative n gives the reciprocal of the positive power
Power(onePlusRate, n) ==
    IF n >= 0 THEN PowerLoop(onePlusRate, n, One)
    ELSE LET p == PowerLoop(onePlusRate, -n, One)
         IN  LongDiv(One % p, p, 6, One \div p)

-----------------------------------------------------------------------------
(* Income tax calculator                                                   *)

\* tapered_allowance without the cap of the reduction at the full allowance
tapered_allowance_uncapped(gross_income) ==
    IF gross_income > PA_TAPER_THRESHOLD
    THEN PERSONAL_ALLOWANCE - Pct(gross_income - PA_TAPER_THRESHOLD, PA_TAPER_RATE)
    ELSE PERSONAL_ALLOWANCE

\* the local `pa` of calculate_income_tax
tapered_allowance(gross_income) ==
    IF gross_income > PA_TAPER_THRESHOLD
    THEN PERSONAL_ALLOWANCE
         - Min(PERSONAL_ALLOWANCE,
               Pct(gross_income - PA_TAPER_THRESHOLD, PA_TAPER_RATE))
    ELSE PERSONAL_ALLOWANCE

calculate_income_tax(gross_income) ==
    LET pa == tapered_allowance(gross_income)
        taxable == Max(0, gross_income - pa)
    IN  BandedTax(taxable, PERSONAL_ALLOWANCE, BASIC_RATE_THRESHOLD,
                  HIGHER_RATE_THRESHOLD)

-----------------------------------------------------------------------------
(* Universal credit: impact of removing the two-child limit                *)

UC_CHILD_ELEMENT_ANNUAL_2025 == 351372

UC_CHILD_ELEMENT_MAX_AGE == 18

UC_TWO_CHILD_LIMIT_END_YEAR == 2026

UC_TWO_CHILD_LIMIT == 2

UC_STANDARD_ALLOWANCE_SINGLE_PARENT_2025 == 480168

UC_TAPER_RATE == 55

UC_WORK_ALLOWANCE_WITH_HOUSING_2025 == 484800

UC_WORK_ALLOWANCE_NO_HOUSING_2025 == 807600

\* EligibleChildren with the cutoff test written `<=`
EligibleChildren_inclusive_cutoff(children_ages) ==
    Cardinality({i \in 1..Len(children_ages) :
                    children_ages[i] <= UC_CHILD_ELEMENT_MAX_AGE + 1})

\* EligibleChildren without the age test: every child counts
EligibleChildren_any_age(children_ages) == Len(children_ages)

\* sum(1 for age in children_ages if age < UC_CHILD_ELEMENT_MAX_AGE + 1)
EligibleChildren(children_ages) ==
    Cardinality({i \in 1..Len(children_ages) :
                    children_ages[i] < UC_CHILD_ELEMENT_MAX_AGE + 1})

\* calculate_uc_child_element_impact with the taper taken off the extra child
\* elements alone instead of off each total entitlement
calculate_uc_child_element_impact_tapered_element(num_children, children_ages, year, net_earnings, has_housing_element) ==
    IF num_children = 0 \/ Len(children_ages) = 0 THEN 0
    ELSE IF EligibleChildren(children_ages) <= UC_TWO_CHILD_LIMIT THEN 0
    ELSE LET eligible_children == EligibleChildren(children_ages)
             base_allowance == IF has_housing_element
                               THEN UC_WORK_ALLOWANCE_WITH_HOUSING_2025
                               ELSE UC_WORK_ALLOWANCE_NO_HOUSING_2025
             cpi_factor == get_cumulative_inflation(2025, year, FALSE)
             child_element == IF year <= 2025 THEN UC_CHILD_ELEMENT_ANNUAL_2025
                              ELSE Mul6(UC_CHILD_ELEMENT_ANNUAL_2025, cpi_factor)
             work_allowance == IF year <= 2025 THEN base_allowance
                               ELSE Mul6(base_allowance, cpi_factor)
             income_reduction == IF net_earnings > work_allowance
                                 THEN Pct(net_earnings - work_allowance, UC_TAPER_RATE)
                                 ELSE 0
         IN  Max(0, (eligible_children - UC_TWO_CHILD_LIMIT) * child_element
                    - income_reduction)

calculate_uc_child_element_impact(num_children, children_ages, year, net_earnings, has_housing_element) ==
    IF num_children = 0 \/ Len(children_ages) = 0 THEN 0
    ELSE IF EligibleChildren(children_ages) <= UC_TWO_CHILD_LIMIT THEN 0
    ELSE LET eligible_children == EligibleChildren(children_ages)
             base_allowance == IF has_housing_element
                               THEN UC_WORK_ALLOWANCE_WITH_HOUSING_2025
                               ELSE UC_WORK_ALLOWANCE_NO_HOUSING_2025
             cpi_factor == get_cumulative_inflation(2025, year, FALSE)
             child_element == IF year <= 2025 THEN UC_CHILD_ELEMENT_ANNUAL_2025
                              ELSE Mul6(UC_CHILD_ELEMENT_ANNUAL_2025, cpi_factor)
             standard_allowance ==
                 IF year <= 2025 THEN UC_STANDARD_ALLOWANCE_SINGLE_PARENT_2025
                 ELSE Mul6(UC_STANDARD_ALLOWANCE_SINGLE_PARENT_2025, cpi_factor)
             work_allowance == IF year <= 2025 THEN base_allowance
                               ELSE Mul6(base_allowance, cpi_factor)
             children_with_limit == Min(eligible_children, UC_TWO_CHILD_LIMIT)
             max_uc_with_limit == standard_allowance + children_with_limit * child_element
             max_uc_without_limit == standard_allowance + eligible_children * child_element
             income_reduction == IF net_earnings > work_allowance
                                 THEN Pct(net_earnings - work_allowance, UC_TAPER_RATE)
                                 ELSE 0
             actual_uc_with_limit == Max(0, max_uc_with_limit - income_reduction)
             actual_uc_without_limit == Max(0, max_uc_without_limit - income_reduction)
         IN  actual_uc_without_limit - actual_uc_with_limit

-----------------------------------------------------------------------------
(* Fuel duty (rates in millionths of a pound per litre)                    *)

FUEL_DUTY_BASELINE ==
    (2025 :> 529500) @@
    (2026 :> (529500 * 91 + 603300 * 275) \div 366) @@
    (2027 :> (603300 * 90 + 622600 * 275) \div 365) @@
    (2028 :> (622600 * 91 + 640600 * 275) \div 366) @@
    (2029 :> (640600 * 90 + 659200 * 275) \div 365)

FUEL_DUTY_REFORM ==
    (2025 :> 529500) @@ (2026 :> 534500) @@ (2027 :> 590200) @@
    (2028 :> 611100) @@ (2029 :> 629000)

FUEL_DUTY_RPI_LONG_TERM == 29000

AVG_PETROL_PRICE_PER_LITRE == 140

\* for year >= the first year of the table
get_fuel_duty_rate(year, is_reform) ==
    LET rates == IF is_reform THEN FUEL_DUTY_REFORM ELSE FUEL_DUTY_BASELINE
    IN  IF year \in DOMAIN rates THEN rates[year]
        ELSE LET last_year == MaxKey(rates)
                 last_rate == rates[last_year]
                 years_ahead == year - last_year
             IN  Mul6(last_rate, Power(One + FUEL_DUTY_RPI_LONG_TERM, years_ahead))

calculate_fuel_duty_impact(petrol_spending, year) ==
    IF year < 2026 THEN 0
    ELSE LET baseline_rate == get_fuel_duty_rate(year, FALSE)
             reform_rate == get_fuel_duty_rate(year, TRUE)
             \* hundredths of a litre
             litres == MulDiv(petrol_spending, 100, AVG_PETROL_PRICE_PER_LITRE)
         IN  Mul6(litres, baseline_rate - reform_rate)

-----------------------------------------------------------------------------
(* Rail fares                                                              *)

RAIL_MARKUP == 10000

DEFAULT_RAIL_BASE_YEAR == 2024

\* FareIndexLoop with the frozen increase taken to be the one of y = 2026
RECURSIVE FareIndexLoop_skips_2026(_, _, _, _)
FareIndexLoop_skips_2026(y, target_year, freeze_2026, index) ==
    IF y >= target_year \/ index = 0 THEN index
    ELSE IF freeze_2026 /\ y = 2026
         THEN FareIndexLoop_skips_2026(y + 1, target_year, freeze_2026, index)
         ELSE FareIndexLoop_skips_2026(y + 1, target_year, freeze_2026,
                                       Mul6(index, One + get_rpi(y) + RAIL_MARKUP))

\* the body of get_fare_index's `for y in range(base_year, target_year)` from y on
RECURSIVE FareIndexLoop(_, _, _, _)
FareIndexLoop(y, target_year, freeze_2026, index) ==
    IF y >= target_year \/ index = 0 THEN index
    ELSE IF freeze_2026 /\ y = 2025
         THEN FareIndexLoop(y + 1, target_year, freeze_2026, index)
         ELSE FareIndexLoop(y + 1, target_year, freeze_2026,
                            Mul6(index, One + get_rpi(y) + RAIL_MARKUP))

get_fare_index(fare_base_year, target_year, freeze_2026) ==
    FareIndexLoop(fare_base_year, target_year, freeze_2026, One)

calculate_rail_impact(rail_spending_base, year, fare_base_year) ==
    IF year < 2026 THEN 0
    ELSE LET preAB_index == get_fare_index(fare_base_year, year, FALSE)
             postAB_index == get_fare_index(fare_base_year, year, TRUE)
             preAB_spending == Mul6(rail_spending_base, preAB_index)
             postAB_spending == Mul6(rail_spending_base, postAB_index)
         IN  preAB_spending - postAB_spending

-----------------------------------------------------------------------------
(* Salary-sacrifice cap                                                    *)

SALARY_SACRIFICE_CAP == 200000

EMPLOYER_NI_RATE == 15

calculate_salary_sacrifice_impact(salary_sacrifice, gross_income) ==
    LET excess == Max(0, salary_sacrifice - SALARY_SACRIFICE_CAP)
        employee_ni_rate == IF gross_income <= NI_UPPER_EARNINGS_LIMIT
                            THEN NI_MAIN_RATE ELSE NI_HIGHER_RATE
    IN  IF excess = 0 THEN 0
        ELSE Pct(excess, employee_ni_rate + EMPLOYER_NI_RATE)

-----------------------------------------------------------------------------
(* Unearned-income tax                                                     *)

DIVIDEND_ALLOWANCE == 50000

SAVINGS_ALLOWANCE_BASIC == 100000

SAVINGS_ALLOWANCE_HIGHER == 50000

\* the dividend rates 0.3375 and 0.0875, in ten-thousandths
DIVIDEND_RATE_HIGHER == 3375

DIVIDEND_RATE_BASIC == 875

\* the increased-rate multiplier 1.05, in hundredths
INCREASED_TAX_MULTIPLIER == 105

\* AfterPersonalAllowance with the unused allowance given to dividends first
AfterPersonalAllowance_dividends_first(dividends, savings_interest, property_income, remaining_pa) ==
    LET dividends_after_pa == Max(0, dividends - Max(0, remaining_pa - 0))
        pa_used_1 == 0 + Min(dividends, Max(0, remaining_pa - 0))
        savings_after_pa == Max(0, savings_interest - Max(0, remaining_pa - pa_used_1))
        pa_used_2 == pa_used_1 + Min(savings_interest, Max(0, remaining_pa - pa_used_1))
        property_after_pa == Max(0, property_income - Max(0, remaining_pa - pa_used_2))
    IN  [ savings |-> savings_after_pa,
          dividends |-> dividends_after_pa,
          property |-> property_after_pa ]

\* [savings, dividends, property] left after the unused personal allowance
\* has been applied to them in that order
AfterPersonalAllowance(dividends, savings_interest, property_income, remaining_pa) ==
    LET savings_after_pa == Max(0, savings_interest - Max(0, remaining_pa - 0))
        pa_used_1 == 0 + Min(savings_interest, Max(0, remaining_pa - 0))
        dividends_after_pa == Max(0, dividends - Max(0, remaining_pa - pa_used_1))
        pa_used_2 == pa_used_1 + Min(dividends, Max(0, remaining_pa - pa_used_1))
        property_after_pa == Max(0, property_income - Max(0, remaining_pa - pa_used_2))
    IN  [ savings |-> savings_after_pa,
          dividends |-> dividends_after_pa,
          property |-> property_after_pa ]

\* calculate_unearned_income_tax with the increase applied to the dividend tax only
calculate_unearned_income_tax_dividends_only(dividends, savings_interest, property_income, gross_income, increased_tax) ==
    LET remaining_pa == Max(0, PERSONAL_ALLOWANCE - gross_income)
        total_unearned == dividends + savings_interest + property_income
        total_income == gross_income + total_unearned
        higher == total_income > BASIC_RATE_THRESHOLD
        savings_allowance == IF higher THEN SAVINGS_ALLOWANCE_HIGHER
                             ELSE SAVINGS_ALLOWANCE_BASIC
        dividend_rate == IF higher THEN DIVIDEND_RATE_HIGHER ELSE DIVIDEND_RATE_BASIC
        savings_rate == IF higher THEN HIGHER_RATE ELSE BASIC_RATE
        after == AfterPersonalAllowance(dividends, savings_interest, property_income,
                                        remaining_pa)
        taxable_savings == Max(0, after.savings - savings_allowance)
        taxable_dividends == Max(0, after.dividends - DIVIDEND_ALLOWANCE)
        taxable_property == after.property
        dividend_tax == MulDiv(taxable_dividends, dividend_rate, 10000)
        other_tax == Pct(taxable_savings, savings_rate)
                     + Pct(taxable_property, savings_rate)
        tax == dividend_tax + other_tax
    IN  IF remaining_pa >= total_unearned THEN 0
        ELSE IF increased_tax
             THEN MulDiv(dividend_tax, INCREASED_TAX_MULTIPLIER, 100) + other_tax
        ELSE tax

calculate_unearned_income_tax(dividends, savings_interest, property_income, gross_income, increased_tax) ==
    LET remaining_pa == Max(0, PERSONAL_ALLOWANCE - gross_income)
        total_unearned == dividends + savings_interest + property_income
        total_income == gross_income + total_unearned
        higher == total_income > BASIC_RATE_THRESHOLD
        savings_allowance == IF higher THEN SAVINGS_ALLOWANCE_HIGHER
                             ELSE SAVINGS_ALLOWANCE_BASIC
        dividend_rate == IF higher THEN DIVIDEND_RATE_HIGHER ELSE DIVIDEND_RATE_BASIC
        savings_rate == IF higher THEN HIGHER_RATE ELSE BASIC_RATE
        after == AfterPersonalAllowance(dividends, savings_interest, property_income,
                                        remaining_pa)
        taxable_savings == Max(0, after.savings - savings_allowance)
        taxable_dividends == Max(0, after.dividends - DIVIDEND_ALLOWANCE)
        taxable_property == after.property
        tax == MulDiv(taxable_dividends, dividend_rate, 10000)
               + Pct(taxable_savings, savings_rate)
               + Pct(taxable_property, savings_rate)
    IN  IF remaining_pa >= total_unearned THEN 0
        ELSE IF increased_tax THEN MulDiv(tax, INCREASED_TAX_MULTIPLIER, 100)
        ELSE tax

-----------------------------------------------------------------------------
(* Lifetime simulation engine: run_model                                   *)

input_year == 2025

graduation_age == 22

\* base_year with the loop started in the year of the inputs
base_year_input_year == input_year

base_year == 2026

\* EARNINGS_GROWTH_BY_AGE.get(age, PEAK_EARNINGS_MULTIPLIER)
AgeMultiplier(age) == Get(EARNINGS_GROWTH_BY_AGE, age, PEAK_EARNINGS_MULTIPLIER)

starting_salary(in) ==
    LET current_age_multiplier == AgeMultiplier(in.current_age)
        base_multiplier_22 == Get(EARNINGS_GROWTH_BY_AGE, 22, 100)
    IN  MulDiv(MulDiv(in.current_salary, 100, current_age_multiplier),
               base_multiplier_22, 100)

graduation_year(in) == input_year - (in.current_age - graduation_age)

end_year(in) == input_year + (in.life_expectancy - in.current_age)

\* the retirement test of the year loop
IsRetired(age, in) == age > in.retirement_age

\* [employment_income, state_pension, gross_income] of one loop iteration
Income(in, year, age, years_since_graduation) ==
    IF IsRetired(age, in)
    THEN LET state_pension == get_state_pension(year)
         IN  [ employment_income |-> 0,
               state_pension |-> state_pension,
               gross_income |-> state_pension ]
    ELSE LET base_multiplier == AgeMultiplier(age)
             additional_growth == Power(One + in.additional_income_growth_rate,
                                        years_since_graduation)
             employment_income ==
                 Mul6(MulDiv(starting_salary(in), base_multiplier, 100),
                      additional_growth)
         IN  [ employment_income |-> employment_income,
               state_pension |-> 0,
               gross_income |-> employment_income ]

\* Scenarios with the reform call given the baseline balance
Scenarios_shared_debt(gross_income, year, years_since_graduation, b_debt, r_debt) ==
    [ baseline |-> calculate_scenario(gross_income, year, years_since_graduation,
                                      b_debt, 2028),
      reform |-> calculate_scenario(gross_income, year, years_since_graduation,
                                    b_debt, 2031) ]

\* Scenarios with the two freeze end years exchanged
Scenarios_regimes_swapped(gross_income, year, years_since_graduation, b_debt, r_debt) ==
    [ baseline |-> calculate_scenario(gross_income, year, years_since_graduation,
                                      b_debt, 2031),
      reform |-> calculate_scenario(gross_income, year, years_since_graduation,
                                    r_debt, 2028) ]

\* the two calculate_scenario calls of one loop iteration
Scenarios(gross_income, year, years_since_graduation, b_debt, r_debt) ==
    [ baseline |-> calculate_scenario(gross_income, year, years_since_graduation,
                                      b_debt, 2028),
      reform |-> calculate_scenario(gross_income, year, years_since_graduation,
                                    r_debt, 2031) ]

\* the dict appended to results
Record(in, year, age, inc, b, r, ni) ==
    LET unearned_cpi_factor == get_cumulative_inflation(base_year, year, FALSE)
        dividends == Mul6(in.dividends_per_year, unearned_cpi_factor)
        savings_interest == Mul6(in.savings_interest_per_year, unearned_cpi_factor)
        property_income == Mul6(in.property_income_per_year, unearned_cpi_factor)
        unearned_tax == calculate_unearned_income_tax(
                            dividends, savings_interest, property_income,
                            inc.gross_income, FALSE)
        baseline_net == inc.gross_income - r.income_tax - ni - r.sl_payment
                        - unearned_tax - in.rail_spending_per_year
                        - in.petrol_spending_per_year
        impact_rail_freeze == calculate_rail_impact(in.rail_spending_per_year, year,
                                                    DEFAULT_RAIL_BASE_YEAR)
        impact_fuel_freeze == calculate_fuel_duty_impact(in.petrol_spending_per_year,
                                                         year)
        impact_threshold_freeze ==
            IF year >= 2028 THEN Round(b.income_tax - r.income_tax) ELSE 0
        impact_sl_freeze ==
            IF year >= 2027 /\ (b.sl_debt > 0 \/ r.sl_debt > 0)
            THEN b.sl_payment - r.sl_payment ELSE 0
        unearned_tax_increased == calculate_unearned_income_tax(
                                      dividends, savings_interest, property_income,
                                      inc.gross_income, TRUE)
        impact_unearned_tax == -(unearned_tax_increased - unearned_tax)
        salary_sacrifice == Mul6(in.salary_sacrifice_per_year, unearned_cpi_factor)
        impact_salary_sacrifice_cap ==
            IF year >= 2029 /\ ~IsRetired(age, in)
            THEN -calculate_salary_sacrifice_impact(salary_sacrifice, inc.gross_income)
            ELSE 0
        years_from_input == year - input_year
        children_ages_this_year ==
            [i \in 1..Len(in.children_ages) |-> in.children_ages[i] + years_from_input]
        num_children == Len(children_ages_this_year)
        net_earnings_for_uc == Max(0, inc.employment_income - r.income_tax - ni)
        impact_two_child_limit ==
            IF num_children > 0 /\ year >= UC_TWO_CHILD_LIMIT_END_YEAR
            THEN calculate_uc_child_element_impact(num_children, children_ages_this_year,
                                                   year, net_earnings_for_uc, TRUE)
            ELSE 0
    IN  [ age |-> age,
          year |-> year,
          gross_income |-> Round(inc.gross_income),
          employment_income |-> Round(inc.employment_income),
          state_pension |-> Round(inc.state_pension),
          income_tax |-> Round(r.income_tax),
          national_insurance |-> Round(ni),
          student_loan_payment |-> Round(r.sl_payment),
          student_loan_debt_remaining |-> Round(r.sl_debt),
          num_children |-> num_children,
          baseline_net_income |-> Round(baseline_net),
          impact_rail_fare_freeze |-> Round(impact_rail_freeze),
          impact_fuel_duty_freeze |-> Round(impact_fuel_freeze),
          impact_threshold_freeze |-> Round(impact_threshold_freeze * Pence),
          impact_unearned_income_tax |-> Round(impact_unearned_tax),
          impact_salary_sacrifice_cap |-> Round(impact_salary_sacrifice_cap),
          impact_sl_threshold_freeze |-> Round(impact_sl_freeze),
          impact_two_child_limit |-> Round(impact_two_child_limit),
          baseline_pa |-> Round(b.pa),
          baseline_basic_threshold |-> Round(b.basic_threshold),
          baseline_taper_threshold |-> Round(b.taper_threshold),
          baseline_additional_threshold |-> Round(b.additional_threshold),
          reform_pa |-> Round(r.pa),
          reform_basic_threshold |-> Round(r.basic_threshold),
          reform_taper_threshold |-> Round(r.taper_threshold),
          reform_additional_threshold |-> Round(r.additional_threshold),
          baseline_sl_debt |-> Round(b.sl_debt),
          reform_sl_debt |-> Round(r.sl_debt),
          baseline_sl_payment |-> Round(b.sl_payment),
          reform_sl_payment |-> Round(r.sl_payment),
          baseline_sl_threshold |-> Round(b.sl_threshold),
          reform_sl_threshold |-> Round(r.sl_threshold) ]

\* Bounds of the explored configurations
MaxLifeExpectancy == 85

MaxProbeYear == 2036

\* ModelInputs of the end-to-end scenario: age 30, salary 40,000, retirement 67,
\* life expectancy 85, no debt, no children, every category spend 0
EndToEnd ==
    [ current_age |-> 30,
      current_salary |-> 4000000,
      retirement_age |-> 67,
      life_expectancy |-> 85,
      student_loan_debt |-> 0,
      salary_sacrifice_per_year |-> 0,
      rail_spending_per_year |-> 0,
      dividends_per_year |-> 0,
      savings_interest_per_year |-> 0,
      property_income_per_year |-> 0,
      petrol_spending_per_year |-> 0,
      additional_income_growth_rate |-> 10000,
      children_ages |-> <<>> ]

\* ModelInputs with unearned income, spending, pension sacrifice and children:
\* a mid earner with a loan, a low earner whose salary leaves part of the
\* personal allowance unused, and a high earner
Households ==
    { [ EndToEnd EXCEPT !.student_loan_debt = 3000000,
                        !.salary_sacrifice_per_year = 500000,
                        !.rail_spending_per_year = 300000,
                        !.dividends_per_year = 500000,
                        !.savings_interest_per_year = 200000,
                        !.property_income_per_year = 1000000,
                        !.petrol_spending_per_year = 150000,
                        !.children_ages = <<1, 4, 7>> ],
      [ EndToEnd EXCEPT !.current_age = 45,
                        !.current_salary = 1000000,
                        !.additional_income_growth_rate = 0,
                        !.rail_spending_per_year = 120000,
                        !.dividends_per_year = 300000,
                        !.savings_interest_per_year = 150000,
                        !.petrol_spending_per_year = 80000,
                        !.children_ages = <<10, 12, 15, 17>> ],
      [ EndToEnd EXCEPT !.current_age = 40,
                        !.current_salary = 12000000,
                        !.salary_sacrifice_per_year = 1000000,
                        !.dividends_per_year = 1000000,
                        !.property_income_per_year = 2400000,
                        !.petrol_spending_per_year = 200000 ] }

\* ModelInputs of a person below the youngest age of EARNINGS_GROWTH_BY_AGE
BelowEarningsTable ==
    [ EndToEnd EXCEPT !.current_age = 20, !.current_salary = 2000000 ]

\* The explored ModelInputs
Configurations ==
    { [ EndToEnd EXCEPT !.current_age = a, !.current_salary = s,
                        !.retirement_age = ra, !.life_expectancy = le,
                        !.student_loan_debt = d,
                        !.additional_income_growth_rate = g ] :
        a \in {22, 30, 45}, s \in {2500000, 9000000},
        ra \in {60, 67}, le \in {70, MaxLifeExpectancy},
        d \in {0, 10000, 500000, 5000000}, g \in {0, 10000} }
    \cup {EndToEnd, BelowEarningsTable}
    \cup Households

\* the scenario locals before the first iteration assigns them
NoScenario ==
    [ pa |-> 0, basic_threshold |-> 0, taper_threshold |-> 0,
      additional_threshold |-> 0, effective_pa |-> 0, income_tax |-> 0,
      sl_threshold |-> 0, sl_payment |-> 0, sl_debt |-> 0 ]

NoCall == [fn |-> "none"]

NoReturn == [raised |-> FALSE, value |-> 0]

Init ==
    /\ inputs \in Configurations
    /\ pc = "loop"
    /\ current_year = base_year
    /\ baseline_debt = inputs.student_loan_debt
    /\ reform_debt = inputs.student_loan_debt
    /\ baseline = NoScenario
    /\ reform = NoScenario
    /\ results = <<>>
    /\ skipped = 0
    /\ call = NoCall
    /\ ret = NoReturn

\* one iteration of `for current_year in range(base_year, end_year + 1)`
YearStep ==
    /\ pc = "loop"
    /\ current_year <= end_year(inputs)
    /\ LET years_since_graduation == current_year - graduation_year(inputs)
           age == graduation_age + years_since_graduation
       IN  IF age < inputs.current_age \/ age > inputs.life_expectancy
           THEN /\ skipped' = skipped + 1
                /\ UNCHANGED <<baseline_debt, reform_debt, baseline, reform, results>>
           ELSE \E inc \in {Income(inputs, current_year, age, years_since_graduation)} :
                \E sc \in {Scenarios(inc.gross_income, current_year,
                                     years_since_graduation, baseline_debt, reform_debt)} :
                    /\ baseline' = sc.baseline
                    /\ reform' = sc.reform
                    /\ baseline_debt' = sc.baseline.sl_debt
                    /\ reform_debt' = sc.reform.sl_debt
                    /\ results' = Append(results,
                                         Record(inputs, current_year, age, inc,
                                                sc.baseline, sc.reform,
                                                calculate_ni(inc.gross_income)))
                    /\ UNCHANGED skipped
    /\ current_year' = current_year + 1
    /\ UNCHANGED <<inputs, pc, call, ret>>

\* the range is exhausted: `return results`
Return ==
    /\ pc = "loop"
    /\ current_year > end_year(inputs)
    /\ pc' = "done"
    /\ UNCHANGED <<inputs, current_year, baseline_debt, reform_debt, baseline, reform,
                   results, skipped, call, ret>>

Next == YearStep \/ Return

Spec == Init /\ [][Next]_vars

-----------------------------------------------------------------------------
(* Calculator harness: each behaviour applies one calculator once, to      *)
(* arguments drawn from a bounded set, and records what the call returned. *)

ProbeYears == 2018..MaxProbeYear \cup {2060, 2080}

\* the threshold values and incomes of tests/test_student_loan_interest.py
TEST_LOWER_THRESHOLD_2024 == 2847000

TEST_UPPER_THRESHOLD_2024 == 5124500

\* pytest.approx(..., abs=0.0001)
TEST_TOLERANCE == 100

TestIncomes ==
    LET rpi_factor == get_cumulative_inflation(2024, 2025, TRUE)
    IN  { Mul6(TEST_LOWER_THRESHOLD_2024, rpi_factor),
          Mul6(TEST_UPPER_THRESHOLD_2024, rpi_factor),
          (TEST_LOWER_THRESHOLD_2024 + TEST_UPPER_THRESHOLD_2024) \div 2,
          2000000, 8000000, 20000000 }

\* incomes around the interest thresholds of a year
ProbeIncomes(year) ==
    LET t == get_student_loan_interest_thresholds(year)
        w == t[2] - t[1]
    IN  {0, t[1] - 1, t[1], t[1] + 1, t[1] + w \div 4, (t[1] + t[2]) \div 2,
         t[1] + 3 * (w \div 4), t[2] - 1, t[2], t[2] + 1}
        \cup TestIncomes

\* a call that returns normally; the source has no raise statement
Returned(v) == [raised |-> FALSE, value |-> v]

InitCalc ==
    /\ inputs = EndToEnd
    /\ pc = "idle"
    /\ current_year = base_year
    /\ baseline_debt = 0
    /\ reform_debt = 0
    /\ baseline = NoScenario
    /\ reform = NoScenario
    /\ results = <<>>
    /\ skipped = 0
    /\ call = NoCall
    /\ ret = NoReturn

CallCumulativeInflation ==
    \E b \in ProbeYears, t \in ProbeYears, rpi \in BOOLEAN :
        /\ call = NoCall
        /\ call' = [fn |-> "get_cumulative_inflation", base_year |-> b,
                    target_year |-> t, use_rpi |-> rpi]
        /\ ret' = Returned(get_cumulative_inflation(b, t, rpi))
        /\ UNCHANGED run_vars

CallInterestRate ==
    \E y \in ProbeYears :
        \E income \in ProbeIncomes(y) :
            /\ call = NoCall
            /\ call' = [fn |-> "get_student_loan_interest_rate",
                        gross_income |-> income, year |-> y]
            /\ ret' = Returned(get_student_loan_interest_rate(income, y))
            /\ UNCHANGED run_vars

\* the children_ages lists tests/test_two_child_limit.py passes to
\* calculate_uc_child_element_impact
TestChildrenAges ==
    { <<>>, <<5>>, <<5, 3>>, <<7, 5, 3>>, <<10, 7, 5, 2>>, <<12, 10, 7, 5, 2>>,
      <<8, 6, 4>>, <<12, 10, 8>>, <<19, 5, 3>>, <<9, 7, 5>> }

\* further children_ages lists with children at and around the age cutoff (19)
CutoffChildrenAges ==
    { <<18, 5, 3>>, <<19, 18, 5, 3>>, <<20, 19, 3>>, <<18, 18, 18>> }

\* UC amount `base` of 2025 uprated to `year` as calculate_uc_child_element_impact
\* uprates it
UcUprated(base, year) ==
    IF year <= 2025 THEN base
    ELSE Mul6(base, get_cumulative_inflation(2025, year, FALSE))

UcWorkAllowance(year, has_housing_element) ==
    UcUprated(IF has_housing_element THEN UC_WORK_ALLOWANCE_WITH_HOUSING_2025
              ELSE UC_WORK_ALLOWANCE_NO_HOUSING_2025, year)

\* maximum entitlement with `n` child elements
UcMaximum(n, year) ==
    UcUprated(UC_STANDARD_ALLOWANCE_SINGLE_PARENT_2025, year)
    + n * UcUprated(UC_CHILD_ELEMENT_ANNUAL_2025, year)

\* the taper reduction at net earnings `net_earnings`
UcReduction(net_earnings, year, has_housing_element) ==
    IF net_earnings > UcWorkAllowance(year, has_housing_element)
    THEN Pct(net_earnings - UcWorkAllowance(year, has_housing_element), UC_TAPER_RATE)
    ELSE 0

\* least net earnings whose taper reduction reaches `amount`
EarningsTapering(amount, year, has_housing_element) ==
    UcWorkAllowance(year, has_housing_element)
    + (amount * 100 + UC_TAPER_RATE - 1) \div UC_TAPER_RATE

\* net earnings of the tests, and earnings at and around the points where the
\* capped and the uncapped entitlement of the household taper to zero
ProbeEarnings(children_ages, year, has_housing_element) ==
    LET n == EligibleChildren(children_ages)
        capped == EarningsTapering(UcMaximum(Min(n, UC_TWO_CHILD_LIMIT), year), year,
                                   has_housing_element)
        uncapped == EarningsTapering(UcMaximum(n, year), year, has_housing_element)
        wa == UcWorkAllowance(year, has_housing_element)
    IN  { 0, 400000, 600000, 684800, 700000, 2200000, 2800000, 3000000, 5000000,
          wa, wa + 1, capped - 200, capped - 1, capped, capped + 1, capped + 200,
          (capped + uncapped) \div 2, uncapped - 1, uncapped, uncapped + 1 }

CallUcChildElementImpact ==
    \E ages \in TestChildrenAges \cup CutoffChildrenAges, y \in ProbeYears, housing \in BOOLEAN :
        \E net \in ProbeEarnings(ages, y, housing) :
            /\ call = NoCall
            /\ call' = [fn |-> "calculate_uc_child_element_impact",
                        num_children |-> Len(ages), children_ages |-> ages,
                        year |-> y, net_earnings |-> net,
                        has_housing_element |-> housing]
            /\ ret' = Returned(calculate_uc_child_element_impact(
                                   Len(ages), ages, y, net, housing))
            /\ UNCHANGED run_vars

\* Bound of the income grid of the tax calculators, in steps of IncomeStep
MaxIncomeSteps == 60

IncomeStep == 500000

\* gross incomes: a grid, and the incomes at and around every threshold
ProbeGross ==
    { k * IncomeStep : k \in 0..MaxIncomeSteps }
    \cup { t + d : t \in { PERSONAL_ALLOWANCE, BASIC_RATE_THRESHOLD,
                            PA_TAPER_THRESHOLD, HIGHER_RATE_THRESHOLD,
                            PA_TAPER_THRESHOLD + 2 * PERSONAL_ALLOWANCE,
                            HIGHER_RATE_THRESHOLD - PERSONAL_ALLOWANCE },
                   d \in {-100, -1, 0, 1, 100} }
    \cup {1, 99, 100}

CallIncomeTax ==
    \E gross \in ProbeGross :
        /\ call = NoCall
        /\ call' = [fn |-> "calculate_income_tax", gross_income |-> gross]
        /\ ret' = Returned(calculate_income_tax(gross))
        /\ UNCHANGED run_vars

CallNi ==
    \E gross \in ProbeGross :
        /\ call = NoCall
        /\ call' = [fn |-> "calculate_ni", gross_income |-> gross]
        /\ ret' = Returned(calculate_ni(gross))
        /\ UNCHANGED run_vars

\* amounts of one category of unearned income
ProbeUnearned == {0, 30000, 80000, 300000, 1500000}

\* earned incomes leaving all, part and none of the personal allowance unused,
\* below and above the basic-rate threshold
ProbeEarned == {0, 500000, 1200000, PERSONAL_ALLOWANCE, 2000000, 4900000, 6000000}

CallUnearnedIncomeTax ==
    \E d \in ProbeUnearned, sv \in ProbeUnearned, pr \in ProbeUnearned :
        \E gross \in ProbeEarned, increased \in BOOLEAN :
            /\ call = NoCall
            /\ call' = [fn |-> "calculate_unearned_income_tax", dividends |-> d,
                        savings_interest |-> sv, property_income |-> pr,
                        gross_income |-> gross, increased_tax |-> increased]
            /\ ret' = Returned(calculate_unearned_income_tax(d, sv, pr, gross, increased))
            /\ UNCHANGED run_vars

\* the freeze_end_year arguments of run_model's two calculate_scenario calls
FreezeEndYears == {2028, 2031}

CallScenario ==
    \E gross \in ProbeGross, y \in ProbeYears, fe \in FreezeEndYears :
        \E debt \in {0, 3000000} :
            /\ call = NoCall
            /\ call' = [fn |-> "calculate_scenario", gross_income |-> gross,
                        year |-> y, years_since_graduation |-> 10,
                        remaining_debt |-> debt, freeze_end_year |-> fe]
            /\ ret' = Returned(calculate_scenario(gross, y, 10, debt, fe))
            /\ UNCHANGED run_vars

\* annual rail spending in 2024 prices
ProbeRailSpending == {0, 1, 120000, 300000, 1000000}

CallRailImpact ==
    \E spend \in ProbeRailSpending, y \in ProbeYears :
        /\ call = NoCall
        /\ call' = [fn |-> "calculate_rail_impact", rail_spending_base |-> spend,
                    current_year |-> y, base_year |-> DEFAULT_RAIL_BASE_YEAR]
        /\ ret' = Returned(calculate_rail_impact(spend, y, DEFAULT_RAIL_BASE_YEAR))
        /\ UNCHANGED run_vars

CallStatePension ==
    \E y \in ProbeYears :
        /\ call = NoCall
        /\ call' = [fn |-> "get_state_pension", year |-> y]
        /\ ret' = Returned(get_state_pension(y))
        /\ UNCHANGED run_vars

\* incomes at, just above and well above the repayment thresholds probed
ProbeLoanIncomes == {0, 2500000, 2729500, 2729600, 4000000, 8000000}

\* no balance, a balance one year's repayment clears, and a large balance
ProbeDebts == {0, 50000, 3000000}

ProbeLoanYears == {2025, 2026, 2030}

ProbeYearsSinceGraduation == {0, 29, 30}

ProbeRepaymentThresholds == {None, 2500000}

CallStudentLoan ==
    \E gross \in ProbeLoanIncomes, debt \in ProbeDebts, y \in ProbeLoanYears :
        \E ysg \in ProbeYearsSinceGraduation, thr \in ProbeRepaymentThresholds :
            /\ call = NoCall
            /\ call' = [fn |-> "calculate_student_loan", gross_income |-> gross,
                        remaining_debt |-> debt, year |-> y,
                        years_since_graduation |-> ysg, threshold |-> thr]
            /\ ret' = Returned(calculate_student_loan(gross, debt, y, ysg, thr))
            /\ UNCHANGED run_vars

NextCalc ==
    \/ CallCumulativeInflation
    \/ CallInterestRate
    \/ CallUcChildElementImpact
    \/ CallIncomeTax
    \/ CallNi
    \/ CallUnearnedIncomeTax
    \/ CallScenario
    \/ CallRailImpact
    \/ CallStatePension
    \/ CallStudentLoan

SpecCalc == InitCalc /\ [][NextCalc]_vars

-----------------------------------------------------------------------------
(* Properties of run_model (checked under Spec)                            *)

years_since(rec) == rec.year - graduation_year(inputs)

LastRecord == results[Len(results)]

\* C1: calculate_student_loan returns repayment 0 and balance 0 whenever
\* years_since_graduation >= 30, whatever the prior balance and the income; so
\* every record 30 or more years after graduation has baseline and reform debt 0
\* and repayment 0, and so have the carried balances.
C1_ForgivenAfter30Years ==
    /\ \A income \in {0, 3000000, 10000000}, debt \in {1, 5000000, 30000000},
          yrs \in {30, 31, 45}, year \in {2026, 2047}, thr \in {None, 2729500} :
          calculate_student_loan(income, debt, year, yrs, thr) = <<0, 0>>
    /\ \A i \in 1..Len(results) :
          years_since(results[i]) >= STUDENT_LOAN_FORGIVENESS_YEARS =>
              /\ results[i].baseline_sl_debt = 0
              /\ results[i].reform_sl_debt = 0
              /\ results[i].baseline_sl_payment = 0
              /\ results[i].reform_sl_payment = 0
              /\ results[i].student_loan_payment = 0
              /\ results[i].student_loan_debt_remaining = 0
    /\ (Len(results) > 0 /\ years_since(LastRecord) >= STUDENT_LOAN_FORGIVENESS_YEARS) =>
          /\ baseline_debt = 0 /\ reform_debt = 0
          /\ baseline.sl_payment = 0 /\ reform.sl_payment = 0

\* C1 witness: a balance still positive 29 years after graduation is written off
\* in the record of year 30
C1_Witness ==
    /\ Len(results) >= 2
    /\ years_since(LastRecord) = STUDENT_LOAN_FORGIVENESS_YEARS
    /\ results[Len(results) - 1].reform_sl_debt > 0
    /\ results[Len(results) - 1].baseline_sl_debt > 0
    /\ LastRecord.reform_sl_debt = 0
    /\ LastRecord.baseline_sl_debt = 0

\* C2: with a configured debt >= 0, both carried balances are >= 0 after every
\* simulated year.
C2_BalancesNeverNegative ==
    inputs.student_loan_debt >= 0 =>
        /\ baseline_debt >= 0
        /\ reform_debt >= 0
        /\ baseline.sl_debt >= 0
        /\ reform.sl_debt >= 0

\* C2 witness: a year in which 9% of the excess income exceeded the balance, so
\* the repayment was capped and the balance paid off
C2_Witness ==
    /\ Len(results) >= 2
    /\ results[Len(results) - 1].reform_sl_debt > 0
    /\ reform.sl_payment > 0
    /\ reform.sl_payment
         < Pct(LastRecord.gross_income * Pence - reform.sl_threshold, STUDENT_LOAN_RATE)
              - Pence
    /\ reform_debt = 0

\* C3: forgiveness is irreversible: once a regime's carried balance is 0, every
\* later simulated year leaves that balance 0 and reports repayment 0.
C3_ForgivenessIrreversible ==
    [][ Len(results') > Len(results) =>
          /\ (baseline_debt = 0 => baseline_debt' = 0 /\ baseline'.sl_payment = 0)
          /\ (reform_debt = 0 => reform_debt' = 0 /\ reform'.sl_payment = 0) ]_vars

\* C3 witness: a balance that was positive in an earlier record is 0, and a later
\* year with income above the repayment threshold has repaid nothing
C3_Witness ==
    /\ Len(results) >= 3
    /\ results[1].reform_sl_debt > 0
    /\ results[Len(results) - 1].reform_sl_debt = 0
    /\ results[Len(results) - 1].age < 50
    /\ LastRecord.gross_income * Pence > reform.sl_threshold
    /\ reform.sl_payment = 0
    /\ reform_debt = 0

\* C4: in the end-to-end configuration every record of a retirement year has
\* income tax 0 and national insurance 0.
C4_RetirementTaxFree ==
    inputs = EndToEnd =>
        \A i \in 1..Len(results) :
            IsRetired(results[i].age, inputs) =>
                results[i].income_tax = 0 /\ results[i].national_insurance = 0

\* C5 as claimed: in the end-to-end configuration the returned sequence has
\* 85 - 30 + 1 records less the iterations the age check skipped.
C5_LengthCountsCurrentYear ==
    (pc = "done" /\ inputs = EndToEnd) =>
        Len(results) = 85 - 30 + 1 - skipped

\* C5 as amended: in the end-to-end configuration the returned sequence has
\* 85 - 30 = 55 records less the iterations the age check skipped (none): the loop
\* starts in 2026, the year after the inputs' year, at age 31.
C5_LengthFromNextYear ==
    (pc = "done" /\ inputs = EndToEnd) =>
        /\ Len(results) = 85 - 30 - skipped
        /\ results[1].year = 2026 /\ results[1].age = 31
        /\ LastRecord.age = 85

\* C5 witness: the end-to-end run has returned its 55 records
C5_Witness ==
    pc = "done" /\ inputs = EndToEnd /\ Len(results) = 55 /\ skipped = 0

\* C6: records at or after the retirement age have employment income 0 and gross
\* income equal to the state pension; records below it have gross income equal
\* to employment income and state pension 0.
C6_RetiredAtRetirementAge ==
    \A i \in 1..Len(results) :
        /\ results[i].age >= inputs.retirement_age =>
              /\ results[i].employment_income = 0
              /\ results[i].gross_income = results[i].state_pension
        /\ results[i].age < inputs.retirement_age =>
              /\ results[i].gross_income = results[i].employment_income
              /\ results[i].state_pension = 0

-----------------------------------------------------------------------------
(* Properties of the calculators (checked under SpecCalc)                  *)

IsInflationCall == call.fn = "get_cumulative_inflation"

IsInterestCall == call.fn = "get_student_loan_interest_rate"

Abs(x) == IF x >= 0 THEN x ELSE -x

\* C7: a call of get_cumulative_inflation with target_year < base_year fails or
\* signals an error instead of returning a factor.
C7_ReversedRangeRejected ==
    (IsInflationCall /\ call.target_year < call.base_year) => ret.raised

\* the rate of an index in a year: the forecast when tabulated, else the long-run
\* constant
RateOf(use_rpi, y) ==
    IF use_rpi
    THEN (IF y \in 2024..2029 THEN RPI_FORECASTS[y] ELSE RPI_LONG_TERM)
    ELSE (IF y \in 2024..2029 THEN CPI_FORECASTS[y] ELSE CPI_LONG_TERM)

\* acc times the product of (1 + rate(y)) over y in [a, b)
RECURSIVE ProductOfRates(_, _, _, _)
ProductOfRates(a, b, use_rpi, acc) ==
    IF a >= b \/ acc = 0 THEN acc
    ELSE ProductOfRates(a + 1, b, use_rpi, Mul6(acc, One + RateOf(use_rpi, a)))

\* C8: for either index and years a <= b, get_cumulative_inflation(a, b) is the
\* product of (1 + rate(y)) over y in [a, b), rate(y) being the forecast when
\* tabulated and the long-run constant otherwise; it is exactly 1.0 when a = b,
\* and the call never fails.
C8_CumulativeFactorIsProduct ==
    (IsInflationCall /\ call.base_year <= call.target_year) =>
        /\ ~ret.raised
        /\ call.base_year = call.target_year => ret.value = One
        /\ ret.value = ProductOfRates(call.base_year, call.target_year, call.use_rpi, One)
        /\ ret.value >= One

\* C8 witness: a range that starts inside the forecast table and ends beyond it
C8_Witness ==
    /\ IsInflationCall
    /\ call.base_year = 2028 /\ call.target_year = 2032 /\ call.use_rpi
    /\ ret.value = Mul6(Mul6(Mul6(One + 28300, One + 28300), One + 23900), One + 23900)

\* the additional rate 3% x (income - lower) / (upper - lower), rounded down
LinearTaper(income, lower, upper) ==
    LET num == 3 * (income - lower)
    IN  LongDiv(num % (upper - lower), upper - lower, 4, num \div (upper - lower))

\* C9: with lower and upper the year's interest thresholds, the rate is RPI(year)
\* for income <= lower, RPI(year) + 3% for income >= upper and RPI(year) + 3% x
\* (income - lower)/(upper - lower) in between, so RPI(year) + 1.5% at the
\* midpoint; it is non-decreasing in income and lies in [RPI, RPI + 3%].
C9_InterestRateTaper ==
    IsInterestCall =>
        LET rpi == RateOf(TRUE, call.year)
            t == get_student_loan_interest_thresholds(call.year)
            lower == t[1]
            upper == t[2]
            income == call.gross_income
        IN  /\ lower < upper
            /\ income <= lower => ret.value = rpi
            /\ income >= upper => ret.value = rpi + 30000
            /\ (lower < income /\ income < upper) =>
                  ret.value = rpi + LinearTaper(income, lower, upper)
            /\ 2 * income = lower + upper => ret.value = rpi + 15000
            /\ rpi <= ret.value /\ ret.value <= rpi + 30000
            /\ \A other \in ProbeIncomes(call.year) :
                  other <= income =>
                      get_student_loan_interest_rate(other, call.year) <= ret.value

\* C9 witness: an income exactly halfway between the thresholds of a year whose
\* thresholds are RPI-uprated beyond the table
C9_Witness ==
    /\ IsInterestCall
    /\ call.year > 2029
    /\ LET t == get_student_loan_interest_thresholds(call.year)
       IN  2 * call.gross_income = t[1] + t[2]
    /\ ret.value = RPI_LONG_TERM + 15000

\* C10: the interest thresholds used for 2024 are 28,470 and 51,245 and those of
\* 2025 are these uprated by RPI(2024): in 2025 an income of 28,470 x (1 +
\* RPI(2024)) gets the RPI-only rate and one of 51,245 x (1 + RPI(2024)) gets
\* RPI + 3%, and in 2024 the midpoint of 28,470 and 51,245 gets RPI(2024) + 1.5%,
\* all within 0.0001.
C10_TestedThresholds ==
    IsInterestCall =>
        LET rpi_factor == One + RPI_FORECASTS[2024]
            lower_2025 == Mul6(TEST_LOWER_THRESHOLD_2024, rpi_factor)
            upper_2025 == Mul6(TEST_UPPER_THRESHOLD_2024, rpi_factor)
            midpoint == (TEST_LOWER_THRESHOLD_2024 + TEST_UPPER_THRESHOLD_2024) \div 2
        IN  /\ call.year = 2024 =>
                  get_student_loan_interest_thresholds(2024)
                      = <<TEST_LOWER_THRESHOLD_2024, TEST_UPPER_THRESHOLD_2024>>
            /\ (call.year = 2025 /\ call.gross_income = lower_2025) =>
                  Abs(ret.value - RPI_FORECASTS[2025]) <= TEST_TOLERANCE
            /\ (call.year = 2025 /\ call.gross_income = upper_2025) =>
                  Abs(ret.value - (RPI_FORECASTS[2025] + 30000)) <= TEST_TOLERANCE
            /\ (call.year = 2024 /\ call.gross_income = midpoint) =>
                  Abs(ret.value - (RPI_FORECASTS[2024] + 15000)) <= TEST_TOLERANCE

IsUcCall == call.fn = "calculate_uc_child_element_impact"

\* the quantities of a recorded calculate_uc_child_element_impact call
UcEligible == EligibleChildren(call.children_ages)

UcFullImpact ==
    (UcEligible - UC_TWO_CHILD_LIMIT) * UcUprated(UC_CHILD_ELEMENT_ANNUAL_2025, call.year)

UcCallReduction == UcReduction(call.net_earnings, call.year, call.has_housing_element)

UcCappedMaximum == UcMaximum(UC_TWO_CHILD_LIMIT, call.year)

UcUncappedMaximum == UcMaximum(UcEligible, call.year)

\* the result is within [0, full impact] and no other probed net earnings
\* below the call's gives a smaller result
UcBoundedAndMonotone ==
    /\ ret.value >= 0
    /\ ret.value <= UcFullImpact
    /\ \A other \in ProbeEarnings(call.children_ages, call.year,
                                   call.has_housing_element) :
           other <= call.net_earnings
               => calculate_uc_child_element_impact(
                      call.num_children, call.children_ages, call.year, other,
                      call.has_housing_element) >= ret.value

\* C11 (as stated): with n > 2 eligible children calculate_uc_child_element_impact
\* returns the full (n - 2) x child element whenever the capped entitlement is
\* still positive after the taper, strictly less than that once the capped
\* entitlement is tapered to zero, and 0 once the uncapped entitlement is tapered
\* to zero too; the result lies in [0, (n - 2) x child element] and is
\* non-increasing in net earnings.
C11_StrictlyLessOnceCappedIsZero ==
    (IsUcCall /\ UcEligible > UC_TWO_CHILD_LIMIT) =>
        /\ Max(0, UcCappedMaximum - UcCallReduction) > 0 => ret.value = UcFullImpact
        /\ Max(0, UcCappedMaximum - UcCallReduction) = 0 => ret.value < UcFullImpact
        /\ Max(0, UcUncappedMaximum - UcCallReduction) = 0 => ret.value = 0
        /\ UcBoundedAndMonotone

\* C11 (amended): the result is the full (n - 2) x child element whenever the
\* taper reduction does not exceed the capped maximum entitlement (also where it
\* equals it, the capped entitlement being exactly zero), strictly less once the
\* reduction exceeds the capped maximum, and 0 once the reduction reaches the
\* uncapped maximum; it lies in [0, (n - 2) x child element] and is
\* non-increasing in net earnings.
C11_StrictlyLessOnceReductionExceedsCapped ==
    (IsUcCall /\ UcEligible > UC_TWO_CHILD_LIMIT) =>
        /\ UcCallReduction <= UcCappedMaximum => ret.value = UcFullImpact
        /\ UcCallReduction > UcCappedMaximum => ret.value < UcFullImpact
        /\ UcCallReduction >= UcUncappedMaximum => ret.value = 0
        /\ UcBoundedAndMonotone

\* a call with three or more eligible children whose capped entitlement is
\* tapered away while part of the uncapped entitlement is left
C11_Witness ==
    /\ IsUcCall
    /\ UcEligible > UC_TWO_CHILD_LIMIT
    /\ UcCallReduction > UcCappedMaximum
    /\ UcCallReduction < UcUncappedMaximum
    /\ ret.value > 0
    /\ ret.value < UcFullImpact

\* C12: calculate_uc_child_element_impact returns exactly 0 for every year, net
\* earnings and housing flag whenever at most 2 children are eligible, a child
\* being eligible exactly when aged below 19.
C12_NoImpactUpToTwoEligible ==
    (IsUcCall /\ Cardinality({i \in DOMAIN call.children_ages :
                                 call.children_ages[i] < 19}) <= 2)
        => ret.value = 0

\* the call of test_child_over_18_not_counted with earnings that leave the
\* entitlement untapered
C12_Witness ==
    /\ IsUcCall
    /\ call.children_ages = <<19, 5, 3>>
    /\ call.net_earnings = 0
    /\ ret.value = 0

IsIncomeTaxCall == call.fn = "calculate_income_tax"

\* the tax on `taxable` as the sum of the three bands laid end to end: the first
\* BASIC_RATE_THRESHOLD - PERSONAL_ALLOWANCE at the basic rate, the next
\* HIGHER_RATE_THRESHOLD - BASIC_RATE_THRESHOLD at the higher rate, the rest at
\* the additional rate
BandSum(taxable) ==
    LET basic_top == BASIC_RATE_THRESHOLD - PERSONAL_ALLOWANCE
        higher_top == HIGHER_RATE_THRESHOLD - PERSONAL_ALLOWANCE
    IN  Pct(Min(taxable, basic_top), BASIC_RATE)
        + Pct(Max(0, Min(taxable, higher_top) - basic_top), HIGHER_RATE)
        + Pct(Max(0, taxable - higher_top), ADDITIONAL_RATE)

\* C13: for every non-negative gross income calculate_income_tax returns a value
\* >= 0 that is 0 at income 0, equals the sum of the basic, higher and additional
\* band contributions, and is non-decreasing in income (also across the taper
\* region above 100,000); the tapered allowance lies between 0 and the full
\* allowance.
C13_IncomeTaxBandsMonotone ==
    IsIncomeTaxCall =>
        /\ ret.value >= 0
        /\ call.gross_income = 0 => ret.value = 0
        /\ tapered_allowance(call.gross_income) >= 0
        /\ tapered_allowance(call.gross_income) <= PERSONAL_ALLOWANCE
        /\ ret.value
             = BandSum(Max(0, call.gross_income - tapered_allowance(call.gross_income)))
        /\ \A other \in ProbeGross :
               other <= call.gross_income => calculate_income_tax(other) <= ret.value

\* a call with an income in the taper region, the allowance partly withdrawn
C13_Witness ==
    /\ IsIncomeTaxCall
    /\ call.gross_income > PA_TAPER_THRESHOLD
    /\ tapered_allowance(call.gross_income) > 0
    /\ tapered_allowance(call.gross_income) < PERSONAL_ALLOWANCE
    /\ ret.value > calculate_income_tax(PA_TAPER_THRESHOLD)

IsNiCall == call.fn = "calculate_ni"

\* C14: calculate_ni returns 0 for income at or below the primary threshold, 8% of
\* the excess over it up to the upper earnings limit, and above the limit adds 2%
\* of the excess over the limit only; it is non-decreasing in income and has no
\* jump at either threshold: between any two incomes the result grows by no more
\* than the main rate times their distance (and one penny of rounding).
C14_NiPiecewiseContinuous ==
    IsNiCall =>
        /\ call.gross_income <= 1257000 => ret.value = 0
        /\ (call.gross_income > 1257000 /\ call.gross_income <= 5027000)
               => ret.value = ((call.gross_income - 1257000) * 8) \div 100
        /\ call.gross_income > 5027000
               => ret.value = ((5027000 - 1257000) * 8) \div 100
                              + ((call.gross_income - 5027000) * 2) \div 100
        /\ \A other \in ProbeGross :
               other <= call.gross_income
                   => /\ calculate_ni(other) <= ret.value
                      /\ ret.value - calculate_ni(other)
                            <= ((call.gross_income - other) * 8) \div 100 + 1

\* a call one penny above the upper earnings limit, where the higher rate has
\* just started to apply
C14_Witness ==
    /\ IsNiCall
    /\ call.gross_income = NI_UPPER_EARNINGS_LIMIT + 1
    /\ ret.value = calculate_ni(NI_UPPER_EARNINGS_LIMIT)
    /\ ret.value > 0

IsUnearnedCall == call.fn = "calculate_unearned_income_tax"

\* the quantities of a recorded calculate_unearned_income_tax call
UnusedAllowance == Max(0, PERSONAL_ALLOWANCE - call.gross_income)

TotalUnearned == call.dividends + call.savings_interest + call.property_income

\* what the call's allocation step leaves of each category
Allocation ==
    AfterPersonalAllowance(call.dividends, call.savings_interest, call.property_income,
                           UnusedAllowance)

\* the tax charged on the amounts `left` of the three categories
TaxOnRemainder(left) ==
    LET higher == call.gross_income + TotalUnearned > BASIC_RATE_THRESHOLD
        tax == MulDiv(Max(0, left.dividends - DIVIDEND_ALLOWANCE),
                      IF higher THEN 3375 ELSE 875, 10000)
               + Pct(Max(0, left.savings - (IF higher THEN SAVINGS_ALLOWANCE_HIGHER
                                            ELSE SAVINGS_ALLOWANCE_BASIC)),
                     IF higher THEN HIGHER_RATE ELSE BASIC_RATE)
               + Pct(left.property, IF higher THEN HIGHER_RATE ELSE BASIC_RATE)
    IN  IF call.increased_tax THEN MulDiv(tax, 105, 100) ELSE tax

\* C15: in calculate_unearned_income_tax the personal allowance left unused by
\* earned income is used up in the order savings interest, dividends, property
\* income: the three reductions add up to min(unused allowance, total unearned
\* income), a later category is reduced only when every earlier one is reduced
\* to nothing, the tax returned is the tax on what that allocation leaves, and
\* the result is 0 whenever the unused allowance covers the total unearned income.
C15_AllowanceOrder ==
    IsUnearnedCall =>
        /\ UnusedAllowance >= TotalUnearned => ret.value = 0
        /\ UnusedAllowance < TotalUnearned =>
              /\ (call.savings_interest - Allocation.savings)
                    + (call.dividends - Allocation.dividends)
                    + (call.property_income - Allocation.property)
                  = Min(UnusedAllowance, TotalUnearned)
              /\ Allocation.savings >= 0
              /\ Allocation.dividends >= 0
              /\ Allocation.property >= 0
              /\ Allocation.dividends < call.dividends => Allocation.savings = 0
              /\ Allocation.property < call.property_income
                    => (Allocation.savings = 0 /\ Allocation.dividends = 0)
              /\ ret.value = TaxOnRemainder(Allocation)

\* a call whose unused allowance covers the savings interest and part of the
\* dividends, and leaves the property income untouched and taxed
C15_Witness ==
    /\ IsUnearnedCall
    /\ UnusedAllowance > call.savings_interest
    /\ call.savings_interest > 0
    /\ Allocation.dividends > 0
    /\ Allocation.dividends < call.dividends
    /\ Allocation.property = call.property_income
    /\ call.property_income > 0
    /\ ret.value > 0

\* the arguments run_model gives calculate_unearned_income_tax in the year of
\* record `rec`, and the tax it returns for them with the flag `increased_tax`
RecordUnearnedTax(rec, increased_tax) ==
    LET factor == get_cumulative_inflation(base_year, rec.year, FALSE)
        inc == Income(inputs, rec.year, rec.age, years_since(rec))
    IN  calculate_unearned_income_tax(Mul6(inputs.dividends_per_year, factor),
                                      Mul6(inputs.savings_interest_per_year, factor),
                                      Mul6(inputs.property_income_per_year, factor),
                                      inc.gross_income, increased_tax)

\* C16: calculate_unearned_income_tax with the increased-rate flag set returns
\* 1.05 times what it returns with the flag unset, so the record's
\* unearned-income-tax impact is -0.05 times the unflagged tax (rounded to whole
\* pounds) and never positive.
C16_IncreasedRateScalesTotal ==
    Len(results) > 0 =>
        /\ RecordUnearnedTax(LastRecord, TRUE)
             = (RecordUnearnedTax(LastRecord, FALSE) * 105) \div 100
        /\ LastRecord.impact_unearned_income_tax
             = Round(-((RecordUnearnedTax(LastRecord, FALSE) * 5) \div 100))
        /\ LastRecord.impact_unearned_income_tax <= 0

\* a year in which savings, dividends and property are all taxed and the
\* increase costs the household money
C16_Witness ==
    /\ Len(results) > 0
    /\ inputs.savings_interest_per_year > 0
    /\ inputs.property_income_per_year > 0
    /\ RecordUnearnedTax(LastRecord, FALSE) > 0
    /\ LastRecord.impact_unearned_income_tax < 0

IsScenarioCall == call.fn = "calculate_scenario"

\* the year from which the regime of the call uprates the repayment threshold
SlFreezeEnd == IF call.freeze_end_year = 2028 THEN 2027 ELSE 2030

\* `nominal` before year `from`, and from then on `nominal` times the cumulative
\* CPI or RPI factor from `from` to the year of the call
FrozenThenUprated(nominal, from, use_rpi) ==
    IF call.year < from THEN nominal
    ELSE Mul6(nominal, ProductOfRates(from, call.year, use_rpi, One))

\* C17: calculate_scenario keeps the personal allowance, the basic-rate threshold
\* and the additional-rate threshold at their nominal values in every year before
\* the regime's freeze-end year (2028 baseline, 2031 reform) and from that year on
\* multiplies each by the cumulative CPI factor from the freeze-end year to the
\* current year; the repayment threshold stays at 27,295 until its own freeze-end
\* year (2027 baseline, 2030 reform) and is from then on multiplied by the
\* cumulative RPI factor from that year; the taper threshold is never uprated.
C17_ThresholdsFrozenThenUprated ==
    IsScenarioCall =>
        /\ ret.value.pa = FrozenThenUprated(1257000, call.freeze_end_year, FALSE)
        /\ ret.value.basic_threshold
             = FrozenThenUprated(5027000, call.freeze_end_year, FALSE)
        /\ ret.value.additional_threshold
             = FrozenThenUprated(12514000, call.freeze_end_year, FALSE)
        /\ ret.value.sl_threshold = FrozenThenUprated(2729500, SlFreezeEnd, TRUE)
        /\ ret.value.taper_threshold = 10000000

\* a reform call in 2031: the repayment threshold has been uprated since 2030
\* while the tax thresholds are in the first year of uprating, factor 1
C17_Witness ==
    /\ IsScenarioCall
    /\ call.freeze_end_year = 2031
    /\ call.year = 2031
    /\ ret.value.pa = PERSONAL_ALLOWANCE
    /\ ret.value.sl_threshold > STUDENT_LOAN_THRESHOLD_PLAN2
    /\ ret.value.sl_threshold = Mul6(STUDENT_LOAN_THRESHOLD_PLAN2, One + RPI_LONG_TERM)

\* C18: whenever the regime's thresholds are at their nominal values (the year of
\* the call is not after the freeze-end year) calculate_scenario's income_tax is
\* calculate_income_tax of the same gross income, and its effective allowance is
\* the allowance calculate_income_tax tapers.
C18_ScenarioTaxIsIncomeTax ==
    (IsScenarioCall /\ call.year <= call.freeze_end_year) =>
        /\ ret.value.income_tax = calculate_income_tax(call.gross_income)
        /\ ret.value.effective_pa = tapered_allowance(call.gross_income)

\* a frozen-year call with an income in the taper region and tax due
C18_Witness ==
    /\ IsScenarioCall
    /\ call.year <= call.freeze_end_year
    /\ call.gross_income > PA_TAPER_THRESHOLD
    /\ ret.value.effective_pa > 0
    /\ ret.value.effective_pa < PERSONAL_ALLOWANCE
    /\ ret.value.income_tax > 0

\* the year run_model has just evaluated and the one it is about to evaluate
YearsInPlay ==
    {current_year} \cup (IF Len(results) > 0 THEN {LastRecord.year} ELSE {})

\* C19: no division of the core has a zero denominator in any year or
\* configuration run_model reaches: the upper interest threshold is strictly
\* greater than the lower one (the width the taper divides by), the petrol price
\* dividing the fuel spending is non-zero, and so is the age multiplier dividing
\* the current salary.
C19_DenominatorsNonZero ==
    /\ \A y \in YearsInPlay :
           get_student_loan_interest_thresholds(y)[2]
               > get_student_loan_interest_thresholds(y)[1]
    /\ AVG_PETROL_PRICE_PER_LITRE # 0
    /\ AgeMultiplier(inputs.current_age) # 0

\* a year beyond the threshold tables in which all three divisions were made:
\* a borrower with petrol spending whose income is inside the taper band
C19_Witness ==
    /\ Len(results) > 0
    /\ LastRecord.year > 2029
    /\ inputs.petrol_spending_per_year > 0
    /\ inputs.student_loan_debt > 0
    /\ LastRecord.reform_sl_debt > 0
    /\ LastRecord.gross_income * Pence
         > get_student_loan_interest_thresholds(LastRecord.year)[1] + Pence
    /\ LastRecord.gross_income * Pence
         < get_student_loan_interest_thresholds(LastRecord.year)[2] - Pence
    /\ LastRecord.impact_fuel_duty_freeze > 0

IsRailCall == call.fn = "calculate_rail_impact"

\* acc times the product of (1 + RPI(y) + 1%) over the years y of [a, b) other
\* than `skip`
RECURSIVE FareProduct(_, _, _, _)
FareProduct(a, b, skip, acc) ==
    IF a >= b \/ acc = 0 THEN acc
    ELSE FareProduct(a + 1, b, skip,
                     IF a = skip THEN acc
                     ELSE Mul6(acc, One + RateOf(TRUE, a) + 10000))

\* the two fare indices of the year of the call; no year is skipped by -1
UnfrozenIndex == FareProduct(2024, call.current_year, -1, One)

FrozenIndex == FareProduct(2024, call.current_year, 2025, One)

\* C20: calculate_rail_impact returns 0 for every year before 2026; for every
\* year >= 2026 it returns spend x unfrozen index - spend x frozen index (which
\* is spend x (unfrozen - frozen) up to a penny of rounding), both indices
\* compounding (1 + RPI(y) + 1%) over y from 2024 up to the year, the frozen one
\* leaving out exactly the increase of y = 2025: the frozen index of 2026 is the
\* index of 2025, and in every later year unfrozen = frozen x (1 + RPI(2025) + 1%)
\* up to the rounding of one product per year; the result is never negative.
C20_RailImpactIsFreezeDifference ==
    IsRailCall =>
        /\ call.current_year < 2026 => ret.value = 0
        /\ call.current_year >= 2026 =>
              /\ ret.value = Mul6(call.rail_spending_base, UnfrozenIndex)
                              - Mul6(call.rail_spending_base, FrozenIndex)
              /\ Abs(ret.value - Mul6(call.rail_spending_base,
                                      UnfrozenIndex - FrozenIndex)) <= 1
              /\ call.current_year = 2026
                    => FrozenIndex = FareProduct(2024, 2025, -1, One)
              /\ Abs(UnfrozenIndex - Mul6(FrozenIndex, One + RateOf(TRUE, 2025) + 10000))
                    <= call.current_year - 2024
        /\ ret.value >= 0

\* a call for a year after 2026 with spending: the saving of the freeze persists
C20_Witness ==
    /\ IsRailCall
    /\ call.current_year > 2026
    /\ call.rail_spending_base = 300000
    /\ ret.value > Mul6(300000, 30000)
    /\ FrozenIndex < UnfrozenIndex

\* the gross income run_model computes in the year of record `rec`
RecordGross(rec) == Income(inputs, rec.year, rec.age, years_since(rec)).gross_income

\* the salary sacrifice of the configuration uprated to the year of record `rec`
RecordSacrifice(rec) ==
    Mul6(inputs.salary_sacrifice_per_year,
         get_cumulative_inflation(base_year, rec.year, FALSE))

\* C21: the record's salary-sacrifice-cap impact is 0 in every year in which the
\* person is not in active employment (at or after the retirement age), in every
\* year before 2029, and whenever the CPI-uprated sacrifice is within the 2,000
\* cap; otherwise it is minus (sacrifice - 2,000) x (employee rate + 15%), the
\* employee rate being 8% when gross income <= 50,270 and 2% above it.
C21_SalarySacrificeCapImpact ==
    Len(results) > 0 =>
        IF \/ LastRecord.age >= inputs.retirement_age
           \/ LastRecord.year < 2029
           \/ RecordSacrifice(LastRecord) <= 200000
        THEN LastRecord.impact_salary_sacrifice_cap = 0
        ELSE LastRecord.impact_salary_sacrifice_cap
               = Round(-Pct(RecordSacrifice(LastRecord) - 200000,
                            (IF RecordGross(LastRecord) <= 5027000 THEN 8 ELSE 2) + 15))

IsPensionCall == call.fn = "get_state_pension"

\* `amount` grown by `rate` (in millionths) once for each year of [a, b)
RECURSIVE GrownBy(_, _, _, _)
GrownBy(a, b, rate, amount) ==
    IF a >= b \/ amount = 0 THEN amount
    ELSE GrownBy(a + 1, b, rate, Mul6(amount, One + rate))

\* C22: get_state_pension returns the forecast value for the tabulated years
\* (2024 to 2027) and, for every year after 2027, the 2027 forecast grown by 2.5%
\* per year, compounded annually from 2027.
C22_PensionGrowsAtTripleLockFloor ==
    IsPensionCall =>
        /\ call.year \in 2024..2027 => ret.value = STATE_PENSION_FORECASTS[call.year]
        /\ call.year > 2027
              => ret.value = GrownBy(2027, call.year, 25000, STATE_PENSION_FORECASTS[2027])

IsStudentLoanCall == call.fn = "calculate_student_loan"

\* an Active year: a positive balance and fewer than 30 years since graduation
ActiveLoanCall ==
    /\ IsStudentLoanCall
    /\ call.remaining_debt > 0
    /\ call.years_since_graduation < 30

CallRepaymentThreshold == IF call.threshold = None THEN 2729500 ELSE call.threshold

\* C23: an Active year of calculate_student_loan repays first and accrues interest
\* second: the repayment is 0 at or below the repayment threshold and otherwise
\* min(9% of the excess, old balance); the new balance is (old balance -
\* repayment) x (1 + interest rate), floored at 0; the repayment never exceeds
\* the old balance.
C23_RepayThenAccrue ==
    ActiveLoanCall =>
        LET repayment == ret.value[1]
            new_debt == ret.value[2]
            excess == call.gross_income - CallRepaymentThreshold
            rate == get_student_loan_interest_rate(call.gross_income, call.year)
        IN  /\ repayment = IF excess <= 0 THEN 0
                           ELSE Min(MulDiv(excess, 9, 100), call.remaining_debt)
            /\ new_debt = Max(0, Mul6(call.remaining_debt - repayment, One + rate))
            /\ repayment <= call.remaining_debt

\* an Active year whose repayment is capped by the old balance, and one that
\* repays part of the balance and accrues interest on the rest
C23_Witness ==
    /\ ActiveLoanCall
    /\ ret.value[1] > 0
    /\ ret.value[1] < call.remaining_debt
    /\ ret.value[2] > call.remaining_debt - ret.value[1]

\* the pre-retirement income formula applied at the configured age in the input year
IncomeAtInputYear ==
    Mul6(MulDiv(starting_salary(inputs), AgeMultiplier(inputs.current_age), 100),
         Power(One + inputs.additional_income_growth_rate,
               input_year - graduation_year(inputs)))

\* C24: the starting salary reproduces the configured salary: the pre-retirement
\* income formula (starting salary x age multiplier x additional-growth factor)
\* at the configured current age in 2025 yields current_salary (to within the
\* pence lost to division), for every current age and additional growth rate.
C24_StartingSalaryReproducesSalary ==
    Abs(IncomeAtInputYear - inputs.current_salary) <= 100

\* C25: in every simulated year from 2026 on, the lower interest-rate threshold
\* returned by get_student_loan_interest_thresholds equals the repayment
\* threshold (sl_threshold) calculate_scenario uses for the reform regime.
C25_LowerThresholdIsRepaymentThreshold ==
    (Len(results) > 0 /\ LastRecord.year >= 2026) =>
        get_student_loan_interest_thresholds(LastRecord.year)[1] = reform.sl_threshold

\* C26: in every simulated year of every run the reform regime's carried debt
\* balance is less than or equal to the baseline regime's: both at the loop head
\* and in the scenarios computed for the last record.
C26_ReformDebtAtMostBaseline ==
    /\ reform_debt <= baseline_debt
    /\ Len(results) > 0 => reform.sl_debt <= baseline.sl_debt

\* a year in which the reform regime repaid more and carries strictly less
C26_Witness ==
    /\ Len(results) > 0
    /\ LastRecord.year >= 2027
    /\ reform.sl_payment > baseline.sl_payment
    /\ 0 < reform_debt
    /\ reform_debt < baseline_debt

\* C27: in every record for a year >= 2027 the student-loan threshold-freeze
\* impact is the baseline regime's repayment minus the reform regime's repayment
\* of that year (rounded for output), the year a balance is finally paid off or
\* forgiven included; in every record for an earlier year it is 0.
C27_SlFreezeImpactIsRepaymentDifference ==
    Len(results) > 0 =>
        LastRecord.impact_sl_threshold_freeze
            = IF LastRecord.year >= 2027
              THEN Round(baseline.sl_payment - reform.sl_payment)
              ELSE 0

\* the threshold-freeze impact run_model derives from two scenarios of one year
ThresholdFreezeImpact(year, b, r) ==
    IF year >= 2028 THEN Round(b.income_tax - r.income_tax) ELSE 0

SameTaxAndThresholds(b, r) ==
    /\ b.income_tax = r.income_tax
    /\ b.pa = r.pa
    /\ b.basic_threshold = r.basic_threshold
    /\ b.additional_threshold = r.additional_threshold
    /\ b.taper_threshold = r.taper_threshold
    /\ b.effective_pa = r.effective_pa

BaselineTaxAtMostReform(year, b, r) ==
    /\ b.income_tax <= r.income_tax
    /\ ThresholdFreezeImpact(year, b, r) <= 0
    /\ year <= 2028 => /\ SameTaxAndThresholds(b, r)
                       /\ ThresholdFreezeImpact(year, b, r) = 0

\* C28: for every gross income and every year the baseline regime's income tax
\* is at most the reform regime's, so a record's threshold-freeze impact is never
\* positive; up to and including 2028 the two regimes' income tax and thresholds
\* are identical and the impact is 0.  Checked for the scenarios of every record
\* of every run and, at each year of the end-to-end run, for every probed gross
\* income.
C28_BaselineTaxAtMostReformTax ==
    /\ Len(results) > 0 =>
          /\ BaselineTaxAtMostReform(LastRecord.year, baseline, reform)
          /\ LastRecord.impact_threshold_freeze
                = ThresholdFreezeImpact(LastRecord.year, baseline, reform)
    /\ inputs = EndToEnd =>
          \A gross \in ProbeGross :
            BaselineTaxAtMostReform(current_year,
                calculate_scenario(gross, current_year, 0, 0, 2028),
                calculate_scenario(gross, current_year, 0, 0, 2031))

\* a record after 2028 in which the longer freeze costs the household tax
C28_Witness ==
    /\ Len(results) > 0
    /\ LastRecord.year > 2028
    /\ baseline.pa > reform.pa
    /\ LastRecord.impact_threshold_freeze < 0

\* children whose configured age plus the years elapsed since 2025 is below 19
EligibleInYear(year) ==
    Cardinality({i \in 1..Len(inputs.children_ages) :
                    inputs.children_ages[i] + (year - 2025) < 19})

\* C29: across the years of one run the number of eligible children never
\* increases, so once the two-child-limit impact is 0 because at most two
\* children remain eligible, the next record, and so every later one, again has
\* at most two eligible children and impact 0.
C29_TwoChildImpactStaysZero ==
    [][ (Len(results) > 0 /\ Len(results') > Len(results)) =>
          /\ EligibleInYear(results'[Len(results')].year) <= EligibleInYear(LastRecord.year)
          /\ (EligibleInYear(LastRecord.year) <= 2 /\ LastRecord.impact_two_child_limit = 0)
                => /\ EligibleInYear(results'[Len(results')].year) <= 2
                   /\ results'[Len(results')].impact_two_child_limit = 0 ]_vars

\* a run whose first record has a positive impact with more than two eligible
\* children, and whose last two records have at most two and impact 0
C29_Witness ==
    /\ Len(results) >= 3
    /\ EligibleInYear(results[1].year) > 2
    /\ results[1].impact_two_child_limit > 0
    /\ EligibleInYear(results[Len(results) - 1].year) = 2
    /\ results[Len(results) - 1].impact_two_child_limit = 0
    /\ LastRecord.impact_two_child_limit = 0

\* C30: for every configuration with a non-negative additional growth rate,
\* employment income in consecutive pre-retirement records is non-decreasing, and
\* the age multiplier does not fall from one record's age to the next, for ages
\* below, inside and above the tabulated range 22 to 50.
C30_EmploymentIncomeNonDecreasing ==
    [][ ( /\ Len(results) > 0
          /\ Len(results') > Len(results)
          /\ inputs.additional_income_growth_rate >= 0
          /\ ~IsRetired(results'[Len(results')].age, inputs) )
        => /\ AgeMultiplier(results'[Len(results')].age) >= AgeMultiplier(LastRecord.age)
           /\ results'[Len(results')].employment_income >= LastRecord.employment_income
      ]_vars

====
